---- MODULE Spec2Model ----
(***************************************************************************)
(* Order-management engine of tests/tradetest.py (class OrderManager).     *)
(*                                                                         *)
(* Processes.  The caller and the feed callbacks run in the main process   *)
(* (process 0).  start() forks the worker processes: one order handler,    *)
(* two DB workers and cpu_count()-1 tick workers (processes 1..cpu_count-1)*)
(* and the cache janitor.  stop() runs in the thread of its caller or,     *)
(* from on_noreconnect, in the thread of the feed.                         *)
(*                                                                         *)
(* Memory.  order_cache and tick_cache are plain cachetools objects: each  *)
(* forked process works on the copy it inherited at the fork.  orders,     *)
(* tick_data, orders_by_instrument and subscribed_instruments are Manager  *)
(* proxies and the three queues are multiprocessing queues: those are      *)
(* shared by all processes.  A read of a Manager dict entry returns a copy *)
(* of the stored value.                                                    *)
(*                                                                         *)
(* Feed.  A tick carries the fields of the feed contract (among them       *)
(* instrument_token, last_price and last_traded_time); ticks arrive only   *)
(* for tokens subscribed on the connection.  The durable store is          *)
(* reachable and pending_orders is keyed by order_id.                      *)
(*                                                                         *)
(* Python dicts are functions whose DOMAIN is the set of keys present.     *)
(* Pass-through order fields without influence on control flow (quantity,  *)
(* variety, product, validity) and log statements are left out.            *)
(***************************************************************************)
EXTENDS Integers, Sequences, FiniteSets, TLC

VARIABLES
    now,                    \* time.time(), in seconds
    cpu_count,              \* multiprocessing.cpu_count() of the host
    started,                \* start() has forked the worker processes
    is_running,             \* Event is_running
    connection_ready,       \* Event connection_ready
    instrument_cache,       \* main process: trading_symbol -> [token, timestamp]
    order_cache,            \* process -> (order_id -> order dict)
    tick_cache,             \* process -> (instrument_token -> [last_price, timestamp])
    orders,                 \* Manager dict: order_id -> order dict
    tick_data,              \* Manager dict: instrument_token -> last_price
    orders_by_instrument,   \* Manager dict: instrument_token -> list of order ids
    subscribed_instruments, \* Manager list of instrument tokens
    ticker_subs,            \* tokens subscribed on the feed connection (KiteTicker)
    order_queue,            \* Queue of order dicts
    db_queue,               \* Queue of (operation, args) jobs
    tick_queue,             \* Queue of ticks
    pending_orders,         \* durable table: order_id -> row
    order_executions,       \* durable table: order_id -> number of execution rows
    tpc,                    \* tick worker -> "idle" | "loop" | "placing" | "dead"
    ttick,                  \* tick worker -> tick being processed
    ttodo,                  \* tick worker -> order ids left in the for loop
    hpc,                    \* order handler: "off" | "run" | "dead" | "exited" | "killed"
    jpc,                    \* cache janitor: "off" | "run" | "sleep" | "exited" | "killed"
    spc,                    \* thread calling stop() -> "idle" | "joining" | "returned"
    sidx,                   \* thread calling stop() -> position in self.processes
    dpc,                    \* DB worker -> "off" | "idle" | "job" | "dead"
    djob,                   \* DB worker -> job taken from db_queue
    placed,                 \* history: order_id -> kite.place_order calls that returned
    tcancelled,             \* history: tick worker -> ids whose row was CANCELLED when it took its tick
    ticksSent,              \* history: ticks delivered by the feed so far
    ticksAfterAdd,          \* history: order_id -> ticks for its token enqueued after add_order
    lastCall,               \* history: last caller-facing operation and its outcome
    lastFault,              \* history: last failed external call (broker or durable store)
    updatesSent,            \* history: order updates pushed by the broker so far
    reconnects,             \* history: on_connect events after the first one
    token_memo              \* main process: lru_cache of _get_instrument_token

vars == <<now, cpu_count, started, is_running, connection_ready, instrument_cache,
          order_cache, tick_cache, orders, tick_data, orders_by_instrument,
          subscribed_instruments, ticker_subs, order_queue, db_queue, tick_queue,
          pending_orders, order_executions, tpc, ttick, ttodo, hpc, dpc, djob,
          jpc, spc, sidx, placed, tcancelled, ticksSent, ticksAfterAdd, lastCall,
          lastFault, updatesSent, reconnects, token_memo>>

----------------------------------------------------------------------------
(* Bounds of the model *)

MaxTicks == 1
MaxTicksRace == 3
MaxBatch == 1
MaxTicksFaults == 2
MaxTicksTimed == 2
MaxClock == 600
ClockStep == 150
MaxReconnects == 2
MaxTicksFeed == 3
MaxBatchFeed == 2
MaxUpdates == 2
MaxTokenClock == 129600
MaxTicksHosts == 2
MaxTicksPrices == 2
TokenClockStep == 43200
MaxTicksBroker == 2

OrderIds == {1, 2}
Symbols == {"X"}
Prices == {1, 2, 3}
MainProc == 0
DbWorkers == {1, 2}

(* kite.ltp: the instrument token the broker reports for a symbol *)
KiteToken(sym) == 1

Tokens == {KiteToken(s) : s \in Symbols}

----------------------------------------------------------------------------
(* dict helpers *)

Put(f, k, v) == [x \in (DOMAIN f) \cup {k} |-> IF x = k THEN v ELSE f[x]]
Del(f, k) == [x \in (DOMAIN f) \ {k} |-> f[x]]
EmptyDict == [x \in {} |-> 0]
Get(f, k, default) == IF k \in DOMAIN f THEN f[k] ELSE default

TickWorkers == 1 .. (cpu_count - 1)

NoTick == [instrument_token |-> 0, last_price |-> 0]
NoJob == [op |-> "none"]
NoCall == [op |-> "none"]
NoFault == [kind |-> "none"]

(* the threads of the main process that can be inside stop() *)
Stoppers == {"caller", "feed"}

----------------------------------------------------------------------------
(* Inputs *)

OrderTypes == {"MARKET", "LIMIT", "SL", "SL-M"}
Operations == {"BUY", "SELL"}

(* order_details handed to add_order (order_id is added by the action) *)
OrderInputs ==
    [trading_symbol : Symbols, order_type : OrderTypes, operation : Operations,
     limit_price : {2}, trigger_price : {2},
     execution_limit : {1, 2}, executions_done : {0}]

MarketInputs ==
    [trading_symbol : Symbols, order_type : {"MARKET"}, operation : {"BUY"},
     limit_price : {2}, trigger_price : {2},
     execution_limit : {1, 3}, executions_done : {0}]

(* new_details handed to modify_order *)
ModifyInputs ==
    [trading_symbol : Symbols, order_type : {"LIMIT"}, operation : {"SELL"},
     limit_price : {3}, trigger_price : {1}]

TickInputs(prices) == [instrument_token : Tokens, last_price : prices]

Batches(prices) ==
    UNION {[1 .. n -> TickInputs(prices)] : n \in 1 .. MaxBatch}

----------------------------------------------------------------------------
(* Init: the state after OrderManager.__init__ on an empty database *)

InitWith(cpus) ==
    /\ now = 0
    /\ updatesSent = 0
    /\ reconnects = 0
    /\ token_memo = EmptyDict
    /\ cpu_count \in cpus
    /\ started = FALSE
    /\ is_running = TRUE
    /\ connection_ready = FALSE
    /\ instrument_cache = EmptyDict
    /\ order_cache = [p \in {MainProc} \cup TickWorkers |-> EmptyDict]
    /\ tick_cache = [p \in {MainProc} \cup TickWorkers |-> EmptyDict]
    /\ orders = EmptyDict
    /\ tick_data = EmptyDict
    /\ orders_by_instrument = EmptyDict
    /\ subscribed_instruments = <<>>
    /\ ticker_subs = {}
    /\ order_queue = <<>>
    /\ db_queue = <<>>
    /\ tick_queue = <<>>
    /\ pending_orders = EmptyDict
    /\ order_executions = [o \in OrderIds |-> 0]
    /\ tpc = [w \in TickWorkers |-> "off"]
    /\ ttick = [w \in TickWorkers |-> NoTick]
    /\ ttodo = [w \in TickWorkers |-> <<>>]
    /\ hpc = "off"
    /\ dpc = [d \in DbWorkers |-> "off"]
    /\ djob = [d \in DbWorkers |-> NoJob]
    /\ jpc = "off"
    /\ spc = [s \in Stoppers |-> "idle"]
    /\ sidx = [s \in Stoppers |-> 1]
    /\ placed = [o \in OrderIds |-> 0]
    /\ tcancelled = [w \in TickWorkers |-> {}]
    /\ ticksSent = 0
    /\ ticksAfterAdd = [o \in OrderIds |-> 0]
    /\ lastCall = NoCall
    /\ lastFault = NoFault

Init == InitWith({2})

----------------------------------------------------------------------------
(* Main process: start() *)

SeqToSet(s) == {s[i] : i \in 1 .. Len(s)}

(* on_connect: set the ready signal and resubscribe the tracked tokens *)
OnConnectSubs == IF subscribed_instruments # <<>>
                 THEN SeqToSet(subscribed_instruments) ELSE {}

(* mutant of Start: the workers are launched although the wait timed out *)
StartWithoutReady ==
    /\ ~started
    /\ spc["caller"] # "joining"
    /\ started' = TRUE
    /\ order_cache' = [p \in DOMAIN order_cache |-> order_cache[MainProc]]
    /\ tick_cache' = [p \in DOMAIN tick_cache |-> tick_cache[MainProc]]
    /\ tpc' = [w \in TickWorkers |-> "idle"]
    /\ hpc' = "run"
    /\ dpc' = [d \in DbWorkers |-> "idle"]
    /\ jpc' = "run"
    /\ UNCHANGED <<now, updatesSent, reconnects, token_memo, cpu_count, is_running, connection_ready, ticker_subs,
                   instrument_cache, orders, tick_data,
                   orders_by_instrument, subscribed_instruments, order_queue,
                   db_queue, tick_queue, pending_orders, order_executions,
                   ttick, ttodo, djob, spc, sidx, placed, tcancelled, ticksSent,
                   ticksAfterAdd, lastCall, lastFault>>

(* start(): ticker.connect, connection_ready.wait succeeds, the worker  *)
(* processes are forked with the parent's order_cache and tick_cache;   *)
(* the application thread is not inside stop() at that time             *)
Start ==
    /\ ~started
    /\ spc["caller"] # "joining"
    /\ started' = TRUE
    /\ connection_ready' = TRUE
    /\ ticker_subs' = OnConnectSubs
    /\ order_cache' = [p \in DOMAIN order_cache |-> order_cache[MainProc]]
    /\ tick_cache' = [p \in DOMAIN tick_cache |-> tick_cache[MainProc]]
    /\ tpc' = [w \in TickWorkers |-> "idle"]
    /\ hpc' = "run"
    /\ dpc' = [d \in DbWorkers |-> "idle"]
    /\ jpc' = "run"
    /\ UNCHANGED <<now, updatesSent, reconnects, token_memo, cpu_count, is_running, instrument_cache, orders, tick_data,
                   orders_by_instrument, subscribed_instruments, order_queue,
                   db_queue, tick_queue, pending_orders, order_executions,
                   ttick, ttodo, djob, spc, sidx, placed, tcancelled, ticksSent,
                   ticksAfterAdd, lastCall, lastFault>>

(* start() when connection_ready.wait(timeout=10) returns False:        *)
(* ConnectionError is raised before any Process object is created       *)
StartFailed ==
    /\ ~started
    /\ spc["caller"] # "joining"
    /\ ~connection_ready
    /\ lastCall' = [op |-> "start", id |-> 0, result |-> "raised", seen |-> "absent"]
    /\ UNCHANGED <<jpc, spc, sidx, lastFault,
                   now, updatesSent, reconnects, token_memo, cpu_count, started, is_running, connection_ready,
                   instrument_cache, order_cache, tick_cache, orders, tick_data,
                   orders_by_instrument, subscribed_instruments, ticker_subs,
                   order_queue, db_queue, tick_queue, pending_orders,
                   order_executions, tpc, ttick, ttodo, hpc, dpc, djob, placed,
                   tcancelled, ticksSent, ticksAfterAdd>>

----------------------------------------------------------------------------
(* Main process: stop(), called by the application or by on_noreconnect *)

(* self.processes: empty until start() has extended it *)
Processes ==
    IF started
    THEN <<[kind |-> "handler", id |-> 0], [kind |-> "janitor", id |-> 0]>>
         \o [i \in 1 .. Cardinality(DbWorkers) |-> [kind |-> "db", id |-> i]]
         \o [i \in 1 .. (cpu_count - 1) |-> [kind |-> "tick", id |-> i]]
    ELSE <<>>

ProcessPc(p) ==
    CASE p.kind = "handler" -> hpc
      [] p.kind = "janitor" -> jpc
      [] p.kind = "db" -> dpc[p.id]
      [] p.kind = "tick" -> tpc[p.id]

(* Process.is_alive() *)
IsAlive(p) == ProcessPc(p) \notin {"off", "dead", "exited", "killed"}

(* Process.terminate() *)
Terminate(p) ==
    /\ hpc' = IF p.kind = "handler" THEN "killed" ELSE hpc
    /\ jpc' = IF p.kind = "janitor" THEN "killed" ELSE jpc
    /\ dpc' = IF p.kind = "db" THEN [dpc EXCEPT ![p.id] = "killed"] ELSE dpc
    /\ tpc' = IF p.kind = "tick" THEN [tpc EXCEPT ![p.id] = "killed"] ELSE tpc

(* is_running.clear(); ticker.close(), upon which the feed calls on_close *)
StopBegin(s) ==
    /\ spc[s] \in {"idle", "returned"}
    /\ is_running' = FALSE
    /\ connection_ready' = FALSE
    /\ spc' = [spc EXCEPT ![s] = "joining"]
    /\ sidx' = [sidx EXCEPT ![s] = 1]
    /\ UNCHANGED <<jpc, lastFault, now, updatesSent, reconnects, token_memo, cpu_count, started,
                   instrument_cache, order_cache, tick_cache, orders, tick_data,
                   orders_by_instrument, subscribed_instruments, ticker_subs,
                   order_queue, db_queue, tick_queue, pending_orders,
                   order_executions, tpc, ttick, ttodo, hpc, dpc, djob, placed,
                   tcancelled, ticksSent, ticksAfterAdd, lastCall>>

(* mutant of OnNoReconnect: the engine is torn down with is_running left set *)
OnNoReconnectKeepsRunning ==
    /\ started
    /\ spc["feed"] = "idle"
    /\ connection_ready' = FALSE
    /\ spc' = [spc EXCEPT !["feed"] = "joining"]
    /\ sidx' = [sidx EXCEPT !["feed"] = 1]
    /\ UNCHANGED <<now, reconnects, token_memo, cpu_count, started, is_running, instrument_cache,
                   order_cache, tick_cache, orders, tick_data,
                   orders_by_instrument, subscribed_instruments,
                   ticker_subs, order_queue, db_queue, tick_queue,
                   pending_orders, order_executions, tpc, ttick, ttodo, hpc,
                   dpc, djob, jpc, placed, tcancelled, ticksSent,
                   ticksAfterAdd, lastCall, lastFault, updatesSent>>

(* on_noreconnect, called once by the feed that start() has connected, *)
(* when it gives up reconnecting                                       *)
OnNoReconnect ==
    /\ started
    /\ spc["feed"] = "idle"
    /\ StopBegin("feed")

(* mutant of StopJoin: a process that outlives the join is left running *)
StopJoinWithoutTerminate(s) ==
    /\ spc[s] = "joining"
    /\ sidx[s] <= Len(Processes)
    /\ sidx' = [sidx EXCEPT ![s] = @ + 1]
    /\ UNCHANGED <<jpc, spc, lastFault, hpc, dpc, tpc,
                   now, updatesSent, reconnects, token_memo, cpu_count, started, is_running, connection_ready,
                   instrument_cache, order_cache, tick_cache, orders, tick_data,
                   orders_by_instrument, subscribed_instruments, ticker_subs,
                   order_queue, db_queue, tick_queue, pending_orders,
                   order_executions, ttick, ttodo, djob, placed,
                   tcancelled, ticksSent, ticksAfterAdd, lastCall>>

(* mutant of StopJoin: terminate() marks every process, alive or not *)
StopJoinAlwaysTerminate(s) ==
    /\ spc[s] = "joining"
    /\ sidx[s] <= Len(Processes)
    /\ Terminate(Processes[sidx[s]])
    /\ sidx' = [sidx EXCEPT ![s] = @ + 1]
    /\ UNCHANGED <<spc, lastFault,
                   now, updatesSent, reconnects, token_memo, cpu_count, started, is_running, connection_ready,
                   instrument_cache, order_cache, tick_cache, orders, tick_data,
                   orders_by_instrument, subscribed_instruments, ticker_subs,
                   order_queue, db_queue, tick_queue, pending_orders,
                   order_executions, ttick, ttodo, djob, placed,
                   tcancelled, ticksSent, ticksAfterAdd, lastCall>>

(* one turn of the for loop: process.join(timeout=5) returns because the  *)
(* process has ended, or times out and the process is terminated          *)
StopJoin(s) ==
    /\ spc[s] = "joining"
    /\ sidx[s] <= Len(Processes)
    /\ IF IsAlive(Processes[sidx[s]])
       THEN Terminate(Processes[sidx[s]])
       ELSE UNCHANGED <<hpc, jpc, dpc, tpc>>
    /\ sidx' = [sidx EXCEPT ![s] = @ + 1]
    /\ UNCHANGED <<spc, lastFault,
                   now, updatesSent, reconnects, token_memo, cpu_count, started, is_running, connection_ready,
                   instrument_cache, order_cache, tick_cache, orders, tick_data,
                   orders_by_instrument, subscribed_instruments, ticker_subs,
                   order_queue, db_queue, tick_queue, pending_orders,
                   order_executions, ttick, ttodo, djob, placed,
                   tcancelled, ticksSent, ticksAfterAdd, lastCall>>

(* the for loop is exhausted: stop() returns *)
StopReturn(s) ==
    /\ spc[s] = "joining"
    /\ sidx[s] > Len(Processes)
    /\ spc' = [spc EXCEPT ![s] = "returned"]
    /\ lastCall' = [op |-> "stop", id |-> 0, result |-> "ok", seen |-> "absent"]
    /\ UNCHANGED <<jpc, sidx, lastFault,
                   now, updatesSent, reconnects, token_memo, cpu_count, started, is_running, connection_ready,
                   instrument_cache, order_cache, tick_cache, orders, tick_data,
                   orders_by_instrument, subscribed_instruments, ticker_subs,
                   order_queue, db_queue, tick_queue, pending_orders,
                   order_executions, tpc, ttick, ttodo, hpc, dpc, djob, placed,
                   tcancelled, ticksSent, ticksAfterAdd>>

----------------------------------------------------------------------------
(* Main process: add_order, modify_order, cancel_order *)

(* TTLCache(maxsize=1000, ttl=24*60*60): seconds an entry of instrument_cache lives *)
TokenTtl == 86400

(* "trading_symbol in self.instrument_cache": present and not expired *)
CachedToken(sym) ==
    /\ sym \in DOMAIN instrument_cache
    /\ now < instrument_cache[sym].timestamp + TokenTtl

(* _get_instrument_token under @lru_cache(maxsize=1000): a symbol that was   *)
(* resolved before is answered from the memo and the body does not run; else *)
(* the cached token, else kite.ltp                                           *)
ResolvedToken(sym) ==
    IF sym \in DOMAIN token_memo THEN token_memo[sym]
    ELSE IF CachedToken(sym) THEN instrument_cache[sym].token
    ELSE KiteToken(sym)

(* self.instrument_cache[trading_symbol] = token, run only when the body of *)
(* _get_instrument_token runs and misses; the write drops expired entries   *)
TokenCacheAfter(sym) ==
    IF sym \in DOMAIN token_memo \/ CachedToken(sym)
    THEN instrument_cache
    ELSE Put([x \in {y \in DOMAIN instrument_cache : CachedToken(y)}
                  |-> instrument_cache[x]],
             sym, [token |-> KiteToken(sym), timestamp |-> now])

NoPrice == 0

InsertJob(od) == [op |-> "insert_order", order_id |-> od.order_id, order |-> od]

AddOrder(o, d) ==
    LET token == ResolvedToken(d.trading_symbol)
        od == [order_id |-> o, trading_symbol |-> d.trading_symbol,
               instrument_token |-> token, order_type |-> d.order_type,
               operation |-> d.operation, limit_price |-> d.limit_price,
               trigger_price |-> d.trigger_price,
               execution_limit |-> d.execution_limit,
               executions_done |-> d.executions_done]
        subscribe == token \notin SeqToSet(subscribed_instruments) /\ connection_ready
    IN  /\ o \notin DOMAIN order_cache[MainProc]
        /\ instrument_cache' = TokenCacheAfter(d.trading_symbol)
        /\ token_memo' = Put(token_memo, d.trading_symbol, token)
        /\ order_cache' = [order_cache EXCEPT ![MainProc] = Put(@, o, od)]
        /\ db_queue' = Append(db_queue, InsertJob(od))
        /\ order_queue' = Append(order_queue, od)
        /\ subscribed_instruments' =
               IF subscribe THEN Append(subscribed_instruments, token)
               ELSE subscribed_instruments
        /\ ticker_subs' = IF subscribe THEN ticker_subs \cup {token} ELSE ticker_subs
        /\ tick_data' = IF subscribe THEN Put(tick_data, token, NoPrice) ELSE tick_data
        /\ lastCall' = [op |-> "add", id |-> o, result |-> "ok", seen |-> "absent"]
        /\ UNCHANGED <<jpc, spc, sidx, lastFault,
                       now, updatesSent, reconnects, cpu_count, started,
                       is_running, connection_ready, tick_cache,
                       orders, orders_by_instrument, tick_queue, pending_orders,
                       order_executions, tpc, ttick, ttodo, hpc, dpc, djob,
                       placed, tcancelled, ticksSent, ticksAfterAdd>>

(* mutant of AddOrderTokenFailed: the order is cached before its token is resolved *)
AddOrderCachedBeforeToken(o, d) ==
    /\ o \notin DOMAIN order_cache[MainProc]
    /\ d.trading_symbol \notin DOMAIN token_memo
    /\ ~CachedToken(d.trading_symbol)
    /\ order_cache' = [order_cache EXCEPT ![MainProc] = Put(@, o, [d EXCEPT !.executions_done = 0])]
    /\ lastCall' = [op |-> "add", id |-> o, result |-> "raised", seen |-> "absent"]
    /\ lastFault' = [kind |-> "ltp", id |-> o]
    /\ UNCHANGED <<jpc, spc, sidx, now, updatesSent, reconnects, token_memo, cpu_count, started, is_running, connection_ready,
                   instrument_cache, tick_cache, orders, tick_data,
                   orders_by_instrument, subscribed_instruments, ticker_subs,
                   order_queue, db_queue, tick_queue, pending_orders,
                   order_executions, tpc, ttick, ttodo, hpc, dpc, djob, placed,
                   tcancelled, ticksSent, ticksAfterAdd>>

(* add_order when _get_instrument_token raises: the symbol is not in       *)
(* instrument_cache and kite.ltp fails; the exception is logged twice and  *)
(* re-raised before any other statement of add_order has run               *)
AddOrderTokenFailed(o, d) ==
    /\ o \notin DOMAIN order_cache[MainProc]
    /\ d.trading_symbol \notin DOMAIN token_memo
    /\ ~CachedToken(d.trading_symbol)
    /\ lastCall' = [op |-> "add", id |-> o, result |-> "raised", seen |-> "absent"]
    /\ lastFault' = [kind |-> "ltp", id |-> o]
    /\ UNCHANGED <<jpc, spc, sidx, now, updatesSent, reconnects, token_memo, cpu_count, started, is_running, connection_ready,
                   instrument_cache, order_cache, tick_cache, orders, tick_data,
                   orders_by_instrument, subscribed_instruments, ticker_subs,
                   order_queue, db_queue, tick_queue, pending_orders,
                   order_executions, tpc, ttick, ttodo, hpc, dpc, djob, placed,
                   tcancelled, ticksSent, ticksAfterAdd>>

(* add_order when ticker.subscribe raises inside subscribe_instruments: the *)
(* feed is connected and the token is new, so the call is made; the order  *)
(* is already in order_cache and on both queues when the exception is      *)
(* re-raised                                                               *)
AddOrderSubscribeFailed(o, d) ==
    LET token == ResolvedToken(d.trading_symbol)
        od == [order_id |-> o, trading_symbol |-> d.trading_symbol,
               instrument_token |-> token, order_type |-> d.order_type,
               operation |-> d.operation, limit_price |-> d.limit_price,
               trigger_price |-> d.trigger_price,
               execution_limit |-> d.execution_limit,
               executions_done |-> d.executions_done]
    IN  /\ o \notin DOMAIN order_cache[MainProc]
        /\ connection_ready
        /\ token \notin SeqToSet(subscribed_instruments)
        /\ instrument_cache' = TokenCacheAfter(d.trading_symbol)
        /\ token_memo' = Put(token_memo, d.trading_symbol, token)
        /\ order_cache' = [order_cache EXCEPT ![MainProc] = Put(@, o, od)]
        /\ db_queue' = Append(db_queue, InsertJob(od))
        /\ order_queue' = Append(order_queue, od)
        /\ lastCall' = [op |-> "add", id |-> o, result |-> "raised", seen |-> "absent"]
        /\ lastFault' = [kind |-> "subscribe", id |-> o]
        /\ UNCHANGED <<now, cpu_count, started, is_running, connection_ready,
                       tick_cache, orders, tick_data, orders_by_instrument,
                       subscribed_instruments, ticker_subs, tick_queue,
                       pending_orders, order_executions, tpc, ttick, ttodo, hpc,
                       dpc, djob, jpc, spc, sidx, placed, tcancelled, ticksSent,
                       ticksAfterAdd, updatesSent, reconnects>>

RowStatus(o) == IF o \in DOMAIN pending_orders THEN pending_orders[o].status ELSE "absent"

(* UPDATE pending_orders SET <details> WHERE order_id = o AND status = 'PENDING' *)
ModifiedRow(row, nd) ==
    [row EXCEPT !.trading_symbol = nd.trading_symbol, !.order_type = nd.order_type,
                !.operation = nd.operation, !.limit_price = nd.limit_price,
                !.trigger_price = nd.trigger_price]

(* mutant of ModifyOrder: the WHERE clause also matches PARTIALLY_EXECUTED rows *)
ModifyOrderNoStatusGuard(o, nd) ==
    LET hit == RowStatus(o) \in {"PENDING", "PARTIALLY_EXECUTED"}
        known == o \in DOMAIN orders
    IN  /\ pending_orders' =
               IF hit /\ known
               THEN [pending_orders EXCEPT ![o] = ModifiedRow(@, nd)]
               ELSE pending_orders
        /\ lastCall' = [op |-> "modify", id |-> o,
                        result |-> IF ~hit THEN "noop"
                                   ELSE IF known THEN "ok" ELSE "raised",
                        seen |-> RowStatus(o)]
        /\ UNCHANGED <<jpc, spc, sidx, lastFault,
                       now, updatesSent, reconnects, token_memo, cpu_count, started, is_running, connection_ready,
                       instrument_cache, order_cache, tick_cache, orders, tick_data,
                       orders_by_instrument, subscribed_instruments, ticker_subs,
                       order_queue, db_queue, tick_queue, order_executions, tpc,
                       ttick, ttodo, hpc, dpc, djob, placed, tcancelled, ticksSent,
                       ticksAfterAdd>>

(* modify_order: rowcount > 0 iff the row is PENDING; then                *)
(* self.orders[order_id].update(new_details) updates the copy the Manager *)
(* proxy returned, or raises KeyError (the transaction is rolled back)    *)
ModifyOrder(o, nd) ==
    LET hit == RowStatus(o) = "PENDING"
        known == o \in DOMAIN orders
    IN  /\ pending_orders' =
               IF hit /\ known
               THEN [pending_orders EXCEPT ![o] = ModifiedRow(@, nd)]
               ELSE pending_orders
        /\ lastCall' = [op |-> "modify", id |-> o,
                        result |-> IF ~hit THEN "noop"
                                   ELSE IF known THEN "ok" ELSE "raised",
                        seen |-> RowStatus(o)]
        /\ UNCHANGED <<jpc, spc, sidx, lastFault,
                       now, updatesSent, reconnects, token_memo, cpu_count, started, is_running, connection_ready,
                       instrument_cache, order_cache, tick_cache, orders, tick_data,
                       orders_by_instrument, subscribed_instruments, ticker_subs,
                       order_queue, db_queue, tick_queue, order_executions, tpc,
                       ttick, ttodo, hpc, dpc, djob, placed, tcancelled, ticksSent,
                       ticksAfterAdd>>

(* mutant of CancelOrder: the WHERE clause lacks AND status = 'PENDING' *)
CancelOrderNoStatusGuard(o) ==
    LET hit == RowStatus(o) # "absent"
    IN  /\ pending_orders' =
               IF hit THEN [pending_orders EXCEPT ![o].status = "CANCELLED"]
               ELSE pending_orders
        /\ orders' = IF hit /\ o \in DOMAIN orders THEN Del(orders, o) ELSE orders
        /\ lastCall' = [op |-> "cancel", id |-> o,
                        result |-> IF hit THEN "ok" ELSE "noop",
                        seen |-> RowStatus(o)]
        /\ UNCHANGED <<jpc, spc, sidx, lastFault,
                       now, updatesSent, reconnects, token_memo, cpu_count, started, is_running, connection_ready,
                       instrument_cache, order_cache, tick_cache, tick_data,
                       orders_by_instrument, subscribed_instruments, ticker_subs,
                       order_queue, db_queue, tick_queue, order_executions, tpc,
                       ttick, ttodo, hpc, dpc, djob, placed, tcancelled, ticksSent,
                       ticksAfterAdd>>

(* cancel_order: UPDATE ... SET status = 'CANCELLED' WHERE status = 'PENDING', *)
(* then del self.orders[order_id] when a row was changed                      *)
CancelOrder(o) ==
    LET hit == RowStatus(o) = "PENDING"
    IN  /\ pending_orders' =
               IF hit THEN [pending_orders EXCEPT ![o].status = "CANCELLED"]
               ELSE pending_orders
        /\ orders' = IF hit /\ o \in DOMAIN orders THEN Del(orders, o) ELSE orders
        /\ lastCall' = [op |-> "cancel", id |-> o,
                        result |-> IF hit THEN "ok" ELSE "noop",
                        seen |-> RowStatus(o)]
        /\ UNCHANGED <<jpc, spc, sidx, lastFault,
                       now, updatesSent, reconnects, token_memo, cpu_count, started, is_running, connection_ready,
                       instrument_cache, order_cache, tick_cache, tick_data,
                       orders_by_instrument, subscribed_instruments, ticker_subs,
                       order_queue, db_queue, tick_queue, order_executions, tpc,
                       ttick, ttodo, hpc, dpc, djob, placed, tcancelled, ticksSent,
                       ticksAfterAdd>>

----------------------------------------------------------------------------
(* Feed callbacks on_close and on_connect, after the connection start() made *)

(* on_close: the connection, and with it what was subscribed on it, is gone *)
OnClose ==
    /\ started /\ is_running
    /\ connection_ready
    /\ connection_ready' = FALSE
    /\ ticker_subs' = {}
    /\ UNCHANGED <<now, token_memo, cpu_count, started, is_running, instrument_cache,
                   order_cache, tick_cache, orders, tick_data,
                   orders_by_instrument, subscribed_instruments,
                   order_queue, db_queue, tick_queue, pending_orders,
                   order_executions, tpc, ttick, ttodo, hpc, dpc, djob, jpc,
                   spc, sidx, placed, tcancelled, ticksSent, ticksAfterAdd,
                   lastCall, lastFault, updatesSent, reconnects>>

(* mutant of OnConnect: the ready signal is set and nothing is subscribed *)
OnConnectWithoutResubscribe ==
    /\ started /\ is_running
    /\ ~connection_ready
    /\ reconnects < MaxReconnects
    /\ connection_ready' = TRUE
    /\ reconnects' = reconnects + 1
    /\ UNCHANGED <<now, token_memo, cpu_count, started, is_running, instrument_cache,
                   order_cache, tick_cache, orders, tick_data,
                   orders_by_instrument, subscribed_instruments,
                   ticker_subs, order_queue, db_queue, tick_queue,
                   pending_orders, order_executions, tpc, ttick, ttodo, hpc,
                   dpc, djob, jpc, spc, sidx, placed, tcancelled, ticksSent,
                   ticksAfterAdd, lastCall, lastFault, updatesSent>>

(* on_connect of a reconnect: connection_ready.set(), then ticker.subscribe *)
(* and set_mode for the tracked tokens                                     *)
OnConnect ==
    /\ started /\ is_running
    /\ ~connection_ready
    /\ reconnects < MaxReconnects
    /\ connection_ready' = TRUE
    /\ ticker_subs' = ticker_subs \cup OnConnectSubs
    /\ reconnects' = reconnects + 1
    /\ UNCHANGED <<now, token_memo, cpu_count, started, is_running, instrument_cache,
                   order_cache, tick_cache, orders, tick_data,
                   orders_by_instrument, subscribed_instruments,
                   order_queue, db_queue, tick_queue, pending_orders,
                   order_executions, tpc, ttick, ttodo, hpc, dpc, djob, jpc,
                   spc, sidx, placed, tcancelled, ticksSent, ticksAfterAdd,
                   lastCall, lastFault, updatesSent>>

----------------------------------------------------------------------------
(* Feed callback on_ticks: every tick of the batch is put on tick_queue *)

CountFor(batch, token) ==
    Cardinality({i \in 1 .. Len(batch) : batch[i].instrument_token = token})

(* mutant of OnTicks: the batch is queued newest tick first *)
OnTicksNewestFirst(batch, maxTicks) ==
    /\ connection_ready
    /\ \A i \in 1 .. Len(batch) : batch[i].instrument_token \in ticker_subs
    /\ ticksSent + Len(batch) <= maxTicks
    /\ tick_queue' = tick_queue
                      \o [i \in 1 .. Len(batch) |-> batch[Len(batch) + 1 - i]]
    /\ ticksSent' = ticksSent + Len(batch)
    /\ ticksAfterAdd' =
           [o \in OrderIds |->
               IF o \in DOMAIN order_cache[MainProc]
               THEN ticksAfterAdd[o]
                    + CountFor(batch, order_cache[MainProc][o].instrument_token)
               ELSE ticksAfterAdd[o]]
    /\ UNCHANGED <<now, token_memo, cpu_count, started, is_running, connection_ready,
                   instrument_cache, order_cache, tick_cache, orders,
                   tick_data, orders_by_instrument, subscribed_instruments,
                   ticker_subs, order_queue, db_queue, pending_orders,
                   order_executions, tpc, ttick, ttodo, hpc, dpc, djob, jpc,
                   spc, sidx, placed, tcancelled, lastCall, lastFault,
                   updatesSent, reconnects>>

OnTicks(batch, maxTicks) ==
    /\ connection_ready
    /\ \A i \in 1 .. Len(batch) : batch[i].instrument_token \in ticker_subs
    /\ ticksSent + Len(batch) <= maxTicks
    /\ tick_queue' = tick_queue \o batch
    /\ ticksSent' = ticksSent + Len(batch)
    /\ ticksAfterAdd' =
           [o \in OrderIds |->
               IF o \in DOMAIN order_cache[MainProc]
               THEN ticksAfterAdd[o]
                    + CountFor(batch, order_cache[MainProc][o].instrument_token)
               ELSE ticksAfterAdd[o]]
    /\ UNCHANGED <<jpc, spc, sidx, lastFault,
                   now, updatesSent, reconnects, token_memo, cpu_count, started, is_running, connection_ready,
                   instrument_cache, order_cache, tick_cache, orders, tick_data,
                   orders_by_instrument, subscribed_instruments, ticker_subs,
                   order_queue, db_queue, pending_orders, order_executions, tpc,
                   ttick, ttodo, hpc, dpc, djob, placed, tcancelled, lastCall>>

----------------------------------------------------------------------------
(* Feed callback on_order_update *)

(* data['status'] as the broker reports it *)
BrokerStatuses == {"OPEN", "COMPLETE", "CANCELLED"}

(* the statuses upon which on_order_update calls _complete_order *)
BrokerTerminal == {"COMPLETE", "REJECTED", "CANCELLED"}

UpdateJob(o, status) == [op |-> "update_status", order_id |-> o, status |-> status]

(* on_order_update with data = {order_id: o, status: status}: an order id *)
(* that is not in self.orders is ignored; otherwise a status job is put   *)
(* on db_queue and, for a terminal status, _complete_order runs in the    *)
(* feed's thread: its UPDATE commits and the id leaves self.orders        *)
OnOrderUpdate(o, status) ==
    /\ connection_ready
    /\ updatesSent < MaxUpdates
    /\ updatesSent' = updatesSent + 1
    /\ IF o \in DOMAIN orders
       THEN /\ db_queue' = Append(db_queue, UpdateJob(o, status))
            /\ IF status \in BrokerTerminal
               THEN /\ pending_orders' = [r \in DOMAIN pending_orders |->
                           IF r = o THEN [pending_orders[r] EXCEPT !.status = status]
                           ELSE pending_orders[r]]
                    /\ orders' = Del(orders, o)
               ELSE UNCHANGED <<pending_orders, orders>>
       ELSE UNCHANGED <<db_queue, pending_orders, orders>>
    /\ UNCHANGED <<now, token_memo, cpu_count, started, is_running, connection_ready,
                   instrument_cache, order_cache, tick_cache, tick_data,
                   orders_by_instrument, subscribed_instruments,
                   ticker_subs, order_queue, tick_queue, order_executions,
                   tpc, ttick, ttodo, hpc, dpc, djob, jpc, spc, sidx,
                   placed, tcancelled, ticksSent, ticksAfterAdd, lastCall,
                   lastFault, reconnects>>

----------------------------------------------------------------------------
(* Order handler process: _handle_incoming_orders *)

HandleIncomingOrder ==
    /\ hpc = "run" /\ is_running
    /\ order_queue # <<>>
    /\ LET order == Head(order_queue)
           token == order.instrument_token
           current_orders == Get(orders_by_instrument, token, <<>>)
       IN  /\ orders' = Put(orders, order.order_id, order)
           /\ orders_by_instrument' =
                  Put(orders_by_instrument, token, Append(current_orders, order.order_id))
    /\ order_queue' = Tail(order_queue)
    /\ UNCHANGED <<jpc, spc, sidx, lastFault,
                   now, updatesSent, reconnects, token_memo, cpu_count, started, is_running, connection_ready,
                   instrument_cache, order_cache, tick_cache, tick_data,
                   subscribed_instruments, ticker_subs, db_queue, tick_queue,
                   pending_orders, order_executions, tpc, ttick, ttodo, hpc, dpc,
                   djob, placed, tcancelled, ticksSent, ticksAfterAdd, lastCall>>

(* order_queue.get(timeout=1) found nothing: queue.Empty is raised and the   *)
(* clause "except Queue.Empty" raises AttributeError (multiprocessing.Queue  *)
(* is a factory method without an Empty attribute), which leaves the loop    *)
HandlerPollEmpty ==
    /\ hpc = "run" /\ is_running
    /\ order_queue = <<>>
    /\ hpc' = "dead"
    /\ UNCHANGED <<jpc, spc, sidx, lastFault,
                   now, updatesSent, reconnects, token_memo, cpu_count, started, is_running, connection_ready,
                   instrument_cache, order_cache, tick_cache, orders, tick_data,
                   orders_by_instrument, subscribed_instruments, ticker_subs,
                   order_queue, db_queue, tick_queue, pending_orders,
                   order_executions, tpc, ttick, ttodo, dpc, djob, placed, tcancelled,
                   ticksSent, ticksAfterAdd, lastCall>>

----------------------------------------------------------------------------
(* DB worker processes: _db_worker *)

(* _db_insert_order: INSERT INTO pending_orders (...) VALUES (..., 'PENDING') *)
InsertedRow(od) ==
    [trading_symbol |-> od.trading_symbol, order_type |-> od.order_type,
     operation |-> od.operation, limit_price |-> od.limit_price,
     trigger_price |-> od.trigger_price, execution_limit |-> od.execution_limit,
     executions_done |-> od.executions_done, status |-> "PENDING"]

DbGet(d) ==
    /\ dpc[d] = "idle" /\ is_running
    /\ db_queue # <<>>
    /\ djob' = [djob EXCEPT ![d] = Head(db_queue)]
    /\ db_queue' = Tail(db_queue)
    /\ dpc' = [dpc EXCEPT ![d] = "job"]
    /\ UNCHANGED <<jpc, spc, sidx, lastFault,
                   now, updatesSent, reconnects, token_memo, cpu_count, started, is_running, connection_ready,
                   instrument_cache, order_cache, tick_cache, orders, tick_data,
                   orders_by_instrument, subscribed_instruments, ticker_subs,
                   order_queue, tick_queue, pending_orders, order_executions, tpc,
                   ttick, ttodo, hpc, placed, tcancelled, ticksSent, ticksAfterAdd,
                   lastCall>>

(* _db_update_order_status: UPDATE pending_orders SET status = %s, ... *)
(* WHERE order_id = %s                                                *)
StatusUpdatedRows(rows, o, status) ==
    [r \in DOMAIN rows |->
        IF r = o THEN [rows[r] EXCEPT !.status = status] ELSE rows[r]]

(* operation(cursor, *args) inside one DatabaseConnection transaction that *)
(* commits; an insert of an order id that already has a row raises, see   *)
(* DbApplyFailed                                                          *)
DbApply(d) ==
    /\ dpc[d] = "job"
    /\ LET job == djob[d]
       IN  \/ /\ job.op = "insert_order"
              /\ job.order_id \notin DOMAIN pending_orders
              /\ pending_orders' =
                     Put(pending_orders, job.order_id, InsertedRow(job.order))
           \/ /\ job.op = "update_status"
              /\ pending_orders' =
                     StatusUpdatedRows(pending_orders, job.order_id, job.status)
    /\ djob' = [djob EXCEPT ![d] = NoJob]
    /\ dpc' = [dpc EXCEPT ![d] = "idle"]
    /\ UNCHANGED <<jpc, spc, sidx, lastFault,
                   now, updatesSent, reconnects, token_memo, cpu_count, started, is_running, connection_ready,
                   instrument_cache, order_cache, tick_cache, orders, tick_data,
                   orders_by_instrument, subscribed_instruments, ticker_subs,
                   order_queue, db_queue, tick_queue, order_executions, tpc,
                   ttick, ttodo, hpc, placed, tcancelled, ticksSent, ticksAfterAdd,
                   lastCall>>

(* DatabaseConnection() or operation(cursor, *args) raised: the transaction *)
(* is rolled back; the interpreter then evaluates the first except clause, *)
(* "except Queue.Empty", which raises AttributeError and ends the process  *)
DbApplyFailed(d) ==
    /\ dpc[d] = "job"
    /\ djob' = [djob EXCEPT ![d] = NoJob]
    /\ dpc' = [dpc EXCEPT ![d] = "dead"]
    /\ lastFault' = [kind |-> "db_job", id |-> djob[d].order_id]
    /\ UNCHANGED <<jpc, spc, sidx, now, updatesSent, reconnects, token_memo, cpu_count, started, is_running, connection_ready,
                   instrument_cache, order_cache, tick_cache, orders, tick_data,
                   orders_by_instrument, subscribed_instruments, ticker_subs,
                   order_queue, db_queue, tick_queue, pending_orders,
                   order_executions, tpc, ttick, ttodo, hpc, placed, tcancelled,
                   ticksSent, ticksAfterAdd, lastCall>>

(* db_queue.get(timeout=1) found nothing: see HandlerPollEmpty *)
DbPollEmpty(d) ==
    /\ dpc[d] = "idle" /\ is_running
    /\ db_queue = <<>>
    /\ dpc' = [dpc EXCEPT ![d] = "dead"]
    /\ UNCHANGED <<jpc, spc, sidx, lastFault,
                   now, updatesSent, reconnects, token_memo, cpu_count, started, is_running, connection_ready,
                   instrument_cache, order_cache, tick_cache, orders, tick_data,
                   orders_by_instrument, subscribed_instruments, ticker_subs,
                   order_queue, db_queue, tick_queue, pending_orders,
                   order_executions, tpc, ttick, ttodo, hpc, djob, placed, tcancelled,
                   ticksSent, ticksAfterAdd, lastCall>>

----------------------------------------------------------------------------
(* Tick worker processes: _tick_worker, _process_tick_data,                *)
(* _check_and_execute_order, _complete_order                               *)

(* mutant of ShouldExecute: a stop-loss SELL needs a price strictly below the trigger *)
ShouldExecuteStrictStop(order, current_price) ==
    IF order.order_type = "MARKET" THEN TRUE
    ELSE IF order.order_type = "LIMIT"
         THEN \/ (order.operation = "BUY" /\ current_price <= order.limit_price)
              \/ (order.operation = "SELL" /\ current_price >= order.limit_price)
    ELSE IF order.order_type \in {"SL", "SL-M"}
         THEN IF order.operation = "BUY"
              THEN current_price >= order.trigger_price
              ELSE current_price < order.trigger_price
    ELSE FALSE

(* mutant of ShouldExecute: a LIMIT BUY needs a price strictly below the limit *)
ShouldExecuteStrictLimit(order, current_price) ==
    IF order.order_type = "MARKET" THEN TRUE
    ELSE IF order.order_type = "LIMIT"
         THEN \/ (order.operation = "BUY" /\ current_price < order.limit_price)
              \/ (order.operation = "SELL" /\ current_price >= order.limit_price)
    ELSE IF order.order_type \in {"SL", "SL-M"}
         THEN IF order.operation = "BUY"
              THEN current_price >= order.trigger_price
              ELSE current_price <= order.trigger_price
    ELSE FALSE

(* the trigger condition of _check_and_execute_order *)
ShouldExecute(order, current_price) ==
    IF order.order_type = "MARKET" THEN TRUE
    ELSE IF order.order_type = "LIMIT"
         THEN \/ (order.operation = "BUY" /\ current_price <= order.limit_price)
              \/ (order.operation = "SELL" /\ current_price >= order.limit_price)
    ELSE IF order.order_type \in {"SL", "SL-M"}
         THEN IF order.operation = "BUY"
              THEN current_price >= order.trigger_price
              ELSE current_price <= order.trigger_price
    ELSE FALSE

(* _complete_order: UPDATE pending_orders SET status = %s WHERE order_id = %s *)
CompletedRows(rows, o, status) ==
    IF o \in DOMAIN rows THEN [rows EXCEPT ![o].status = status] ELSE rows

(* _complete_order: del self.orders[order_id] when present *)
CompletedOrders(tbl, o) == IF o \in DOMAIN tbl THEN Del(tbl, o) ELSE tbl

(* UPDATE pending_orders SET executions_done = executions_done + 1, status =   *)
(* CASE WHEN executions_done >= execution_limit ...: MySQL evaluates the       *)
(* assignments left to right, the CASE reads the incremented column            *)
ExecutedRows(rows, o) ==
    IF o \in DOMAIN rows
    THEN LET n == rows[o].executions_done + 1
         IN  [rows EXCEPT ![o].executions_done = n,
                          ![o].status = IF n >= rows[o].execution_limit
                                        THEN "COMPLETED" ELSE "PARTIALLY_EXECUTED"]
    ELSE rows

(* the for loop of _process_tick_data moves to its next order id *)
LoopNext(w) ==
    /\ ttodo' = [ttodo EXCEPT ![w] = Tail(@)]
    /\ tpc' = [tpc EXCEPT ![w] = IF Len(ttodo[w]) = 1 THEN "idle" ELSE "loop"]
    /\ ttick' = [ttick EXCEPT ![w] = IF Len(ttodo[w]) = 1 THEN NoTick ELSE @]
    /\ tcancelled' = [tcancelled EXCEPT ![w] = IF Len(ttodo[w]) = 1 THEN {} ELSE @]

(* TTLCache(maxsize=5000, ttl=300): seconds an entry of tick_cache lives *)
TickTtl == 300

(* the dict _cache_tick_data stores; the cache stamps the entry's expiry  *)
(* (write time + ttl) in the same call                                    *)
CachedTick(price) == [last_price |-> price, timestamp |-> now]

(* TTLCache: an entry is expired as soon as not (timer() < written + ttl) *)
Expired(entry) == ~(now < entry.timestamp + TickTtl)

(* a reader that trusts whatever the dict still holds *)
GetCachedTickNoExpiry(p, token) ==
    IF token \in DOMAIN tick_cache[p]
    THEN tick_cache[p][token].last_price
    ELSE NoPrice

(* _get_cached_tick in process p: tick_cache.get(token); TTLCache.get     *)
(* answers its default for a missing key and for an expired entry alike,  *)
(* whether or not expire() has removed the entry yet                      *)
GetCachedTick(p, token) ==
    IF token \in DOMAIN tick_cache[p] /\ ~Expired(tick_cache[p][token])
    THEN tick_cache[p][token].last_price
    ELSE NoPrice

(* TTLCache.expire(): drops the expired entries of one process's copy *)
ExpireTicks(cache) ==
    [t \in {x \in DOMAIN cache : ~Expired(cache[x])} |-> cache[t]]

(* tick_queue.get, _cache_tick_data, tick_data update, read of the index *)
TickGet(w) ==
    /\ tpc[w] = "idle" /\ is_running
    /\ tick_queue # <<>>
    /\ LET tick == Head(tick_queue)
           token == tick.instrument_token
           order_ids == Get(orders_by_instrument, token, <<>>)
       IN  /\ tick_cache' = [tick_cache EXCEPT
                  ![w] = Put(ExpireTicks(@), token, CachedTick(tick.last_price))]
           /\ tick_data' = Put(tick_data, token, tick.last_price)
           /\ ttodo' = [ttodo EXCEPT ![w] = order_ids]
           /\ tpc' = [tpc EXCEPT ![w] = IF order_ids = <<>> THEN "idle" ELSE "loop"]
           /\ ttick' = [ttick EXCEPT ![w] = IF order_ids = <<>> THEN NoTick ELSE tick]
           /\ tcancelled' = [tcancelled EXCEPT ![w] =
                  IF order_ids = <<>> THEN {}
                  ELSE {o \in DOMAIN pending_orders :
                            pending_orders[o].status = "CANCELLED"}]
    /\ tick_queue' = Tail(tick_queue)
    /\ UNCHANGED <<jpc, spc, sidx, lastFault,
                   now, updatesSent, reconnects, token_memo, cpu_count, started, is_running, connection_ready,
                   instrument_cache, order_cache, orders, orders_by_instrument,
                   subscribed_instruments, ticker_subs, order_queue, db_queue,
                   pending_orders, order_executions, hpc, dpc, djob, placed,
                   ticksSent, ticksAfterAdd, lastCall>>

(* TickGet in two steps, for the runs in which what other processes do  *)
(* between the two matters: tick_queue.get returns the tick ...         *)
TickDequeue(w) ==
    /\ tpc[w] = "idle" /\ is_running
    /\ tick_queue # <<>>
    /\ ttick' = [ttick EXCEPT ![w] = Head(tick_queue)]
    /\ tick_queue' = Tail(tick_queue)
    /\ tpc' = [tpc EXCEPT ![w] = "got"]
    /\ UNCHANGED <<now, cpu_count, started, is_running, connection_ready,
                   instrument_cache, order_cache, tick_cache, orders,
                   tick_data, orders_by_instrument, subscribed_instruments,
                   ticker_subs, order_queue, db_queue, pending_orders,
                   order_executions, ttodo, hpc, dpc, djob, jpc, spc, sidx,
                   placed, tcancelled, ticksSent, ticksAfterAdd, lastCall,
                   lastFault, updatesSent, reconnects, token_memo>>

(* ... and _process_tick_data caches it, writes tick_data and reads the index *)
TickStore(w) ==
    /\ tpc[w] = "got"
    /\ LET tick == ttick[w]
           token == tick.instrument_token
           order_ids == Get(orders_by_instrument, token, <<>>)
       IN  /\ tick_cache' = [tick_cache EXCEPT
                  ![w] = Put(ExpireTicks(@), token, CachedTick(tick.last_price))]
           /\ tick_data' = Put(tick_data, token, tick.last_price)
           /\ ttodo' = [ttodo EXCEPT ![w] = order_ids]
           /\ tpc' = [tpc EXCEPT ![w] = IF order_ids = <<>> THEN "idle" ELSE "loop"]
           /\ ttick' = [ttick EXCEPT ![w] = IF order_ids = <<>> THEN NoTick ELSE tick]
           /\ tcancelled' = [tcancelled EXCEPT ![w] =
                  IF order_ids = <<>> THEN {}
                  ELSE {o \in DOMAIN pending_orders :
                            pending_orders[o].status = "CANCELLED"}]
    /\ UNCHANGED <<now, cpu_count, started, is_running, connection_ready,
                   instrument_cache, order_cache, orders,
                   orders_by_instrument, subscribed_instruments,
                   ticker_subs, order_queue, db_queue, tick_queue,
                   pending_orders, order_executions, hpc, dpc, djob, jpc,
                   spc, sidx, placed, ticksSent, ticksAfterAdd, lastCall,
                   lastFault, updatesSent, reconnects, token_memo>>

(* one iteration of the for loop up to the kite.place_order call *)
TickEval(w) ==
    /\ tpc[w] = "loop"
    /\ LET o == Head(ttodo[w])
           cache == order_cache[w]
       IN  IF o \notin DOMAIN cache
           THEN /\ LoopNext(w)
                /\ UNCHANGED <<pending_orders, orders>>
           ELSE IF cache[o].executions_done >= cache[o].execution_limit
           THEN /\ pending_orders' = CompletedRows(pending_orders, o, "COMPLETED")
                /\ orders' = CompletedOrders(orders, o)
                /\ LoopNext(w)
           ELSE IF ShouldExecute(cache[o], ttick[w].last_price)
           THEN /\ tpc' = [tpc EXCEPT ![w] = "placing"]
                /\ UNCHANGED <<pending_orders, orders, ttodo, ttick, tcancelled>>
           ELSE /\ LoopNext(w)
                /\ UNCHANGED <<pending_orders, orders>>
    /\ UNCHANGED <<jpc, spc, sidx, lastFault,
                   now, updatesSent, reconnects, token_memo, cpu_count, started, is_running, connection_ready,
                   instrument_cache, order_cache, tick_cache, tick_data,
                   orders_by_instrument, subscribed_instruments, ticker_subs,
                   order_queue, db_queue, tick_queue, order_executions, hpc, dpc,
                   djob, placed, ticksSent, ticksAfterAdd, lastCall>>

(* kite.place_order returned: count the execution, record it, complete or store *)
TickPlaced(w) ==
    /\ tpc[w] = "placing"
    /\ LET o == Head(ttodo[w])
           order == [order_cache[w][o] EXCEPT !.executions_done = @ + 1]
           executed == ExecutedRows(pending_orders, o)
       IN  /\ placed' = [placed EXCEPT ![o] = @ + 1]
           /\ order_cache' = [order_cache EXCEPT ![w] = Put(@, o, order)]
           /\ order_executions' = [order_executions EXCEPT ![o] = @ + 1]
           /\ IF order.executions_done >= order.execution_limit
              THEN /\ pending_orders' = CompletedRows(executed, o, "COMPLETED")
                   /\ orders' = CompletedOrders(orders, o)
              ELSE /\ pending_orders' = executed
                   /\ orders' = Put(orders, o, order)
    /\ LoopNext(w)
    /\ UNCHANGED <<jpc, spc, sidx, lastFault,
                   now, updatesSent, reconnects, token_memo, cpu_count, started, is_running, connection_ready,
                   instrument_cache, tick_cache, tick_data, orders_by_instrument,
                   subscribed_instruments, ticker_subs, order_queue, db_queue,
                   tick_queue, hpc, dpc, djob, ticksSent, ticksAfterAdd, lastCall>>

(* mutant of TickPlaceFailed: the execution is counted before the broker call *)
TickPlaceFailedCounted(w) ==
    /\ tpc[w] = "placing"
    /\ order_cache' = [order_cache EXCEPT ![w][Head(ttodo[w])].executions_done = @ + 1]
    /\ LoopNext(w)
    /\ lastFault' = [kind |-> "place_order", id |-> Head(ttodo[w])]
    /\ UNCHANGED <<jpc, spc, sidx,
                   now, updatesSent, reconnects, token_memo, cpu_count, started, is_running, connection_ready,
                   instrument_cache, tick_cache, orders, tick_data,
                   orders_by_instrument, subscribed_instruments, ticker_subs,
                   order_queue, db_queue, tick_queue, pending_orders,
                   order_executions, hpc, dpc, djob, placed, ticksSent,
                   ticksAfterAdd, lastCall>>

(* kite.place_order raised: logged, the order is left as it was *)
TickPlaceFailed(w) ==
    /\ tpc[w] = "placing"
    /\ LoopNext(w)
    /\ lastFault' = [kind |-> "place_order", id |-> Head(ttodo[w])]
    /\ UNCHANGED <<jpc, spc, sidx,
                   now, updatesSent, reconnects, token_memo, cpu_count, started, is_running, connection_ready,
                   instrument_cache, order_cache, tick_cache, orders, tick_data,
                   orders_by_instrument, subscribed_instruments, ticker_subs,
                   order_queue, db_queue, tick_queue, pending_orders,
                   order_executions, hpc, dpc, djob, placed, ticksSent,
                   ticksAfterAdd, lastCall>>

DbStages == {"record", "complete"}

(* kite.place_order returned and executions_done was incremented in the    *)
(* worker's cache; then a durable write raised.  stage "record": the       *)
(* transaction of lines 510-527 is rolled back and lines 529-533 are       *)
(* skipped.  stage "complete": that transaction committed, the one of      *)
(* _complete_order raised and del self.orders[order_id] is skipped         *)
TickPlacedDbFailed(w, stage) ==
    /\ tpc[w] = "placing"
    /\ LET o == Head(ttodo[w])
           order == [order_cache[w][o] EXCEPT !.executions_done = @ + 1]
       IN  /\ placed' = [placed EXCEPT ![o] = @ + 1]
           /\ order_cache' = [order_cache EXCEPT ![w] = Put(@, o, order)]
           /\ IF stage = "record"
              THEN UNCHANGED <<pending_orders, order_executions>>
              ELSE /\ order.executions_done >= order.execution_limit
                   /\ pending_orders' = ExecutedRows(pending_orders, o)
                   /\ order_executions' = [order_executions EXCEPT ![o] = @ + 1]
           /\ lastFault' = [kind |-> "db_" \o stage, id |-> o]
    /\ LoopNext(w)
    /\ UNCHANGED <<jpc, spc, sidx, now, updatesSent, reconnects, token_memo, cpu_count, started, is_running, connection_ready,
                   instrument_cache, tick_cache, orders, tick_data,
                   orders_by_instrument, subscribed_instruments, ticker_subs,
                   order_queue, db_queue, tick_queue, hpc, dpc, djob, ticksSent,
                   ticksAfterAdd, lastCall>>

(* the limit was already reached (lines 471-474) and the durable write of  *)
(* _complete_order raised: logged, del self.orders[order_id] is skipped    *)
TickCompleteDbFailed(w) ==
    /\ tpc[w] = "loop"
    /\ Head(ttodo[w]) \in DOMAIN order_cache[w]
    /\ order_cache[w][Head(ttodo[w])].executions_done
           >= order_cache[w][Head(ttodo[w])].execution_limit
    /\ lastFault' = [kind |-> "db_complete", id |-> Head(ttodo[w])]
    /\ LoopNext(w)
    /\ UNCHANGED <<jpc, spc, sidx, now, updatesSent, reconnects, token_memo, cpu_count, started, is_running, connection_ready,
                   instrument_cache, order_cache, tick_cache, orders, tick_data,
                   orders_by_instrument, subscribed_instruments, ticker_subs,
                   order_queue, db_queue, tick_queue, pending_orders,
                   order_executions, hpc, dpc, djob, placed, ticksSent,
                   ticksAfterAdd, lastCall>>

(* tick_queue.get(timeout=1) found nothing: see HandlerPollEmpty *)
TickPollEmpty(w) ==
    /\ tpc[w] = "idle" /\ is_running
    /\ tick_queue = <<>>
    /\ tpc' = [tpc EXCEPT ![w] = "dead"]
    /\ UNCHANGED <<jpc, spc, sidx, lastFault,
                   now, updatesSent, reconnects, token_memo, cpu_count, started, is_running, connection_ready,
                   instrument_cache, order_cache, tick_cache, orders, tick_data,
                   orders_by_instrument, subscribed_instruments, ticker_subs,
                   order_queue, db_queue, tick_queue, pending_orders,
                   order_executions, ttick, ttodo, hpc, dpc, djob, placed, tcancelled,
                   ticksSent, ticksAfterAdd, lastCall>>

----------------------------------------------------------------------------
(* Worker loops ending: "while self.is_running.is_set()" is false *)

HandlerExit ==
    /\ hpc = "run" /\ ~is_running
    /\ hpc' = "exited"
    /\ UNCHANGED <<now, updatesSent, reconnects, token_memo, cpu_count, started, is_running, connection_ready,
                   instrument_cache, order_cache, tick_cache, orders,
                   tick_data, orders_by_instrument, subscribed_instruments,
                   ticker_subs, order_queue, db_queue, tick_queue,
                   pending_orders, order_executions, tpc, ttick, ttodo, dpc,
                   djob, jpc, spc, sidx, placed, tcancelled, ticksSent,
                   ticksAfterAdd, lastCall, lastFault>>

DbExit(d) ==
    /\ dpc[d] = "idle" /\ ~is_running
    /\ dpc' = [dpc EXCEPT ![d] = "exited"]
    /\ UNCHANGED <<now, updatesSent, reconnects, token_memo, cpu_count, started, is_running, connection_ready,
                   instrument_cache, order_cache, tick_cache, orders,
                   tick_data, orders_by_instrument, subscribed_instruments,
                   ticker_subs, order_queue, db_queue, tick_queue,
                   pending_orders, order_executions, tpc, ttick, ttodo, hpc,
                   djob, jpc, spc, sidx, placed, tcancelled, ticksSent,
                   ticksAfterAdd, lastCall, lastFault>>

TickExit(w) ==
    /\ tpc[w] = "idle" /\ ~is_running
    /\ tpc' = [tpc EXCEPT ![w] = "exited"]
    /\ UNCHANGED <<now, updatesSent, reconnects, token_memo, cpu_count, started, is_running, connection_ready,
                   instrument_cache, order_cache, tick_cache, orders,
                   tick_data, orders_by_instrument, subscribed_instruments,
                   ticker_subs, order_queue, db_queue, tick_queue,
                   pending_orders, order_executions, ttick, ttodo, hpc, dpc,
                   djob, jpc, spc, sidx, placed, tcancelled, ticksSent,
                   ticksAfterAdd, lastCall, lastFault>>

----------------------------------------------------------------------------
(* Wall clock *)

(* dt seconds pass between two steps of the program *)
Advance(dt, maxClock) ==
    /\ now + dt <= maxClock
    /\ now' = now + dt
    /\ UNCHANGED <<reconnects, token_memo, cpu_count, started, is_running, connection_ready,
                   instrument_cache, order_cache, tick_cache, orders,
                   tick_data, orders_by_instrument, subscribed_instruments,
                   ticker_subs, order_queue, db_queue, tick_queue,
                   pending_orders, order_executions, tpc, ttick, ttodo, hpc,
                   dpc, djob, jpc, spc, sidx, placed, tcancelled, ticksSent,
                   ticksAfterAdd, lastCall, lastFault, updatesSent>>

----------------------------------------------------------------------------
(* Cache janitor process: _cleanup_caches *)

(* expire() on the janitor's own copies of the caches, then time.sleep(300) *)
JanitorSweep ==
    /\ jpc = "run" /\ is_running
    /\ jpc' = "sleep"
    /\ UNCHANGED <<now, updatesSent, reconnects, token_memo, cpu_count, started, is_running, connection_ready,
                   instrument_cache, order_cache, tick_cache, orders,
                   tick_data, orders_by_instrument, subscribed_instruments,
                   ticker_subs, order_queue, db_queue, tick_queue,
                   pending_orders, order_executions, tpc, ttick, ttodo, hpc,
                   dpc, djob, spc, sidx, placed, tcancelled, ticksSent,
                   ticksAfterAdd, lastCall, lastFault>>

(* time.sleep(300) is over *)
JanitorWake ==
    /\ jpc = "sleep"
    /\ jpc' = "run"
    /\ UNCHANGED <<now, updatesSent, reconnects, token_memo, cpu_count, started, is_running, connection_ready,
                   instrument_cache, order_cache, tick_cache, orders,
                   tick_data, orders_by_instrument, subscribed_instruments,
                   ticker_subs, order_queue, db_queue, tick_queue,
                   pending_orders, order_executions, tpc, ttick, ttodo, hpc,
                   dpc, djob, spc, sidx, placed, tcancelled, ticksSent,
                   ticksAfterAdd, lastCall, lastFault>>

JanitorExit ==
    /\ jpc = "run" /\ ~is_running
    /\ jpc' = "exited"
    /\ UNCHANGED <<now, updatesSent, reconnects, token_memo, cpu_count, started, is_running, connection_ready,
                   instrument_cache, order_cache, tick_cache, orders,
                   tick_data, orders_by_instrument, subscribed_instruments,
                   ticker_subs, order_queue, db_queue, tick_queue,
                   pending_orders, order_executions, tpc, ttick, ttodo, hpc,
                   dpc, djob, spc, sidx, placed, tcancelled, ticksSent,
                   ticksAfterAdd, lastCall, lastFault>>

----------------------------------------------------------------------------
(* Specifications *)

(* One tick worker (cpu_count() = 2), the caller adds, modifies and cancels *)
ApiInputs(o) ==
    IF o = 1
    THEN {d \in OrderInputs : d.order_type = "LIMIT" /\ d.operation = "BUY"}
    ELSE {d \in OrderInputs : d.order_type = "MARKET" /\ d.operation = "BUY"
                               /\ d.execution_limit = 1}

Next ==
    \/ Start
    \/ \E o \in OrderIds : \E d \in ApiInputs(o) : AddOrder(o, d)
    \/ \E o \in OrderIds, nd \in ModifyInputs : ModifyOrder(o, nd)
    \/ \E o \in OrderIds : CancelOrder(o)
    \/ \E b \in Batches({2}) : OnTicks(b, MaxTicks)
    \/ HandleIncomingOrder
    \/ \E d \in DbWorkers : DbGet(d)
    \/ \E d \in DbWorkers : DbApply(d)
    \/ \E w \in TickWorkers : TickGet(w)
    \/ \E w \in TickWorkers : TickEval(w)
    \/ \E w \in TickWorkers : TickPlaced(w)
    \/ \E w \in TickWorkers : TickPlaceFailed(w)
    \/ \E w \in TickWorkers : TickPollEmpty(w)
    \/ \E d \in DbWorkers : DbPollEmpty(d)
    \/ HandlerPollEmpty

Spec == Init /\ [][Next]_vars

(* One tick worker, every order type and operation, prices around the limit *)
TriggerInputs(o) ==
    IF o = 1 THEN OrderInputs
    ELSE {d \in OrderInputs : d.order_type = "MARKET" /\ d.operation = "BUY"
                               /\ d.execution_limit = 1}

NextTrigger ==
    \/ Start
    \/ \E o \in OrderIds : \E d \in TriggerInputs(o) : AddOrder(o, d)
    \/ \E b \in Batches(Prices) : OnTicks(b, MaxTicks)
    \/ HandleIncomingOrder
    \/ HandlerPollEmpty
    \/ \E d \in DbWorkers : DbGet(d)
    \/ \E d \in DbWorkers : DbApply(d)
    \/ \E d \in DbWorkers : DbPollEmpty(d)
    \/ \E w \in TickWorkers : TickGet(w)
    \/ \E w \in TickWorkers : TickEval(w)
    \/ \E w \in TickWorkers : TickPlaced(w)
    \/ \E w \in TickWorkers : TickPlaceFailed(w)
    \/ \E w \in TickWorkers : TickPollEmpty(w)

SpecTrigger == Init /\ [][NextTrigger]_vars

(* One tick worker, MARKET orders; the broker, kite.ltp and the durable *)
(* store can fail                                                      *)
FaultInputs(o) == IF o = 1 THEN MarketInputs
                  ELSE {d \in MarketInputs : d.execution_limit = 1}

NextFaults ==
    \/ Start
    \/ \E o \in OrderIds : \E d \in FaultInputs(o) : AddOrder(o, d)
    \/ \E o \in OrderIds : \E d \in FaultInputs(o) : AddOrderTokenFailed(o, d)
    \/ \E b \in Batches({1}) : OnTicks(b, MaxTicksFaults)
    \/ HandleIncomingOrder
    \/ HandlerPollEmpty
    \/ \E d \in DbWorkers : DbGet(d)
    \/ \E d \in DbWorkers : DbApply(d)
    \/ \E d \in DbWorkers : DbApplyFailed(d)
    \/ \E d \in DbWorkers : DbPollEmpty(d)
    \/ \E w \in TickWorkers : TickGet(w)
    \/ \E w \in TickWorkers : TickEval(w)
    \/ \E w \in TickWorkers : TickPlaced(w)
    \/ \E w \in TickWorkers : TickPlaceFailed(w)
    \/ \E w \in TickWorkers : \E stage \in DbStages : TickPlacedDbFailed(w, stage)
    \/ \E w \in TickWorkers : TickCompleteDbFailed(w)
    \/ \E w \in TickWorkers : TickPollEmpty(w)

SpecFaults == Init /\ [][NextFaults]_vars

(* One tick worker, MARKET orders; start() can time out and the *)
(* application calls stop()                                     *)
LifecycleInputs(o) == {d \in MarketInputs : d.execution_limit = 1}

NextLifecycle ==
    \/ Start
    \/ StartFailed
    \/ StopBegin("caller")
    \/ StopJoin("caller")
    \/ StopReturn("caller")
    \/ \E o \in OrderIds : \E d \in LifecycleInputs(o) : AddOrder(o, d)
    \/ \E b \in Batches({1}) : OnTicks(b, MaxTicks)
    \/ HandleIncomingOrder
    \/ HandlerPollEmpty
    \/ HandlerExit
    \/ \E d \in DbWorkers : DbGet(d)
    \/ \E d \in DbWorkers : DbApply(d)
    \/ \E d \in DbWorkers : DbPollEmpty(d)
    \/ \E d \in DbWorkers : DbExit(d)
    \/ \E w \in TickWorkers : TickGet(w)
    \/ \E w \in TickWorkers : TickEval(w)
    \/ \E w \in TickWorkers : TickPlaced(w)
    \/ \E w \in TickWorkers : TickPollEmpty(w)
    \/ \E w \in TickWorkers : TickExit(w)
    \/ JanitorSweep
    \/ JanitorWake
    \/ JanitorExit

SpecLifecycle == Init /\ [][NextLifecycle]_vars

(* One tick worker, one order and no ticks; stop() is called by the *)
(* application and, through on_noreconnect, by the feed             *)
ShutdownInputs(o) == {d \in MarketInputs : d.execution_limit = 1 /\ o = 1}

NextShutdown ==
    \/ Start
    \/ StopBegin("caller")
    \/ OnNoReconnect
    \/ \E s \in Stoppers : StopJoin(s)
    \/ \E s \in Stoppers : StopReturn(s)
    \/ \E o \in OrderIds : \E d \in ShutdownInputs(o) : AddOrder(o, d)
    \/ HandleIncomingOrder
    \/ HandlerPollEmpty
    \/ HandlerExit
    \/ \E d \in DbWorkers : DbGet(d)
    \/ \E d \in DbWorkers : DbApply(d)
    \/ \E d \in DbWorkers : DbPollEmpty(d)
    \/ \E d \in DbWorkers : DbExit(d)
    \/ \E w \in TickWorkers : TickPollEmpty(w)
    \/ \E w \in TickWorkers : TickExit(w)
    \/ JanitorSweep
    \/ JanitorWake
    \/ JanitorExit

SpecShutdown == Init /\ [][NextShutdown]_vars

(* One tick worker, two orders, one tick; the feed gives up reconnecting *)
(* stop() runs on the feed's thread and every join in it is bounded by  *)
(* timeout=5, so a stop() in progress keeps taking its turns            *)
NextNoReconnect ==
    \/ Start
    \/ OnNoReconnect
    \/ StopJoin("feed")
    \/ StopReturn("feed")
    \/ \E o \in OrderIds : \E d \in LifecycleInputs(o) : AddOrder(o, d)
    \/ \E b \in Batches({1}) : OnTicks(b, MaxTicks)
    \/ HandleIncomingOrder
    \/ HandlerExit
    \/ \E d \in DbWorkers : DbGet(d)
    \/ \E d \in DbWorkers : DbApply(d)
    \/ \E d \in DbWorkers : DbExit(d)
    \/ \E w \in TickWorkers : TickGet(w)
    \/ \E w \in TickWorkers : TickEval(w)
    \/ \E w \in TickWorkers : TickPlaced(w)
    \/ \E w \in TickWorkers : TickExit(w)
    \/ JanitorSweep
    \/ JanitorWake
    \/ JanitorExit

SpecNoReconnect ==
    /\ Init /\ [][NextNoReconnect]_vars
    /\ WF_vars(StopJoin("feed"))
    /\ WF_vars(StopReturn("feed"))

(* One tick worker, MARKET orders; the feed's connection closes and is *)
(* made again, and ticks arrive in batches of up to MaxBatchFeed      *)
FeedInputs(o) == {d \in MarketInputs : d.execution_limit = 3}

FeedBatches ==
    UNION {[1 .. n -> TickInputs({1, 2})] : n \in 1 .. MaxBatchFeed}

NextFeed ==
    \/ Start
    \/ OnClose
    \/ OnConnect
    \/ \E o \in OrderIds : \E d \in FeedInputs(o) : AddOrder(o, d)
    \/ \E b \in FeedBatches : OnTicks(b, MaxTicksFeed)
    \/ HandleIncomingOrder
    \/ \E d \in DbWorkers : DbGet(d)
    \/ \E d \in DbWorkers : DbApply(d)
    \/ \E w \in TickWorkers : TickGet(w)
    \/ \E w \in TickWorkers : TickEval(w)
    \/ \E w \in TickWorkers : TickPlaced(w)

SpecFeed == Init /\ [][NextFeed]_vars

(* One tick worker, MARKET orders; the broker pushes order updates *)
BrokerInputs(o) == {d \in MarketInputs : d.execution_limit = 3}

NextBroker ==
    \/ Start
    \/ \E o \in OrderIds : \E d \in BrokerInputs(o) : AddOrder(o, d)
    \/ \E o \in OrderIds : \E st \in BrokerStatuses : OnOrderUpdate(o, st)
    \/ \E b \in Batches({1}) : OnTicks(b, MaxTicksBroker)
    \/ HandleIncomingOrder
    \/ \E d \in DbWorkers : DbGet(d)
    \/ \E d \in DbWorkers : DbApply(d)
    \/ \E w \in TickWorkers : TickGet(w)
    \/ \E w \in TickWorkers : TickEval(w)
    \/ \E w \in TickWorkers : TickPlaced(w)

SpecBroker == Init /\ [][NextBroker]_vars

(* add_order can fail at the token lookup and at the subscription *)
IntakeInputs(o) == {d \in MarketInputs : d.execution_limit = 1}

NextIntake ==
    \/ Start
    \/ \E o \in OrderIds : \E d \in IntakeInputs(o) : AddOrder(o, d)
    \/ \E o \in OrderIds : \E d \in IntakeInputs(o) : AddOrderTokenFailed(o, d)
    \/ \E o \in OrderIds : \E d \in IntakeInputs(o) : AddOrderSubscribeFailed(o, d)
    \/ \E b \in Batches({1}) : OnTicks(b, MaxTicks)
    \/ HandleIncomingOrder
    \/ \E d \in DbWorkers : DbGet(d)
    \/ \E d \in DbWorkers : DbApply(d)
    \/ \E w \in TickWorkers : TickGet(w)
    \/ \E w \in TickWorkers : TickEval(w)
    \/ \E w \in TickWorkers : TickPlaced(w)

SpecIntake == Init /\ [][NextIntake]_vars

(* Hosts with one, two and three processors: cpu_count() - 1 tick workers *)
HostInputs(o) == {d \in MarketInputs : d.execution_limit = 1}

InitHosts == InitWith({1, 2, 3})

NextHosts ==
    \/ Start
    \/ \E o \in OrderIds : \E d \in HostInputs(o) : AddOrder(o, d)
    \/ \E b \in Batches({1}) : OnTicks(b, MaxTicksHosts)
    \/ HandleIncomingOrder
    \/ \E d \in DbWorkers : DbGet(d)
    \/ \E d \in DbWorkers : DbApply(d)
    \/ \E w \in TickWorkers : TickGet(w)
    \/ \E w \in TickWorkers : TickEval(w)
    \/ \E w \in TickWorkers : TickPlaced(w)
    \/ \E w \in TickWorkers : TickPollEmpty(w)

SpecHosts == InitHosts /\ [][NextHosts]_vars

(* One and two tick workers; the i-th tick the feed delivers carries the *)
(* price i, and a worker's dequeue and its writes are separate steps     *)
PriceInputs(o) == {d \in MarketInputs : d.execution_limit = 3}

InitPrices == InitWith({2, 3})

NextTick == <<[instrument_token |-> KiteToken("X"), last_price |-> ticksSent + 1]>>

NextPrices ==
    \/ Start
    \/ \E o \in OrderIds : \E d \in PriceInputs(o) : AddOrder(o, d)
    \/ OnTicks(NextTick, MaxTicksPrices)
    \/ HandleIncomingOrder
    \/ \E w \in TickWorkers : TickDequeue(w)
    \/ \E w \in TickWorkers : TickStore(w)
    \/ \E w \in TickWorkers : TickEval(w)
    \/ \E w \in TickWorkers : TickPlaced(w)

SpecPrices == InitPrices /\ [][NextPrices]_vars

(* Orders are added over more than a day; no ticks *)
TokenInputs(o) == {d \in MarketInputs : d.execution_limit = 1}

NextTokens ==
    \/ Start
    \/ \E o \in OrderIds : \E d \in TokenInputs(o) : AddOrder(o, d)
    \/ HandleIncomingOrder
    \/ \E d \in DbWorkers : DbGet(d)
    \/ \E d \in DbWorkers : DbApply(d)
    \/ JanitorSweep
    \/ JanitorWake
    \/ Advance(TokenClockStep, MaxTokenClock)

SpecTokens == Init /\ [][NextTokens]_vars

(* One tick worker, MARKET orders, nothing fails; time passes between *)
(* the steps and the janitor sweeps                                   *)
TimedInputs(o) ==
    {d \in MarketInputs : d.execution_limit = (IF o = 1 THEN 1 ELSE 3)}

NextTimed ==
    \/ Start
    \/ \E o \in OrderIds : \E d \in TimedInputs(o) : AddOrder(o, d)
    \/ \E b \in Batches({1}) : OnTicks(b, MaxTicksTimed)
    \/ HandleIncomingOrder
    \/ \E d \in DbWorkers : DbGet(d)
    \/ \E d \in DbWorkers : DbApply(d)
    \/ \E w \in TickWorkers : TickGet(w)
    \/ \E w \in TickWorkers : TickEval(w)
    \/ \E w \in TickWorkers : TickPlaced(w)
    \/ JanitorSweep
    \/ JanitorWake
    \/ Advance(ClockStep, MaxClock)

SpecTimed == Init /\ [][NextTimed]_vars

(* Two tick workers (cpu_count() = 3), MARKET orders, one price *)
RaceInputs(o) == IF o = 1 THEN MarketInputs
                 ELSE {d \in MarketInputs : d.execution_limit = 1}

InitRace == InitWith({3})

NextRace ==
    \/ Start
    \/ \E o \in OrderIds : \E d \in RaceInputs(o) : AddOrder(o, d)
    \/ \E b \in Batches({1}) : OnTicks(b, MaxTicksRace)
    \/ HandleIncomingOrder
    \/ \E d \in DbWorkers : DbGet(d)
    \/ \E d \in DbWorkers : DbApply(d)
    \/ \E w \in TickWorkers : TickGet(w)
    \/ \E w \in TickWorkers : TickEval(w)
    \/ \E w \in TickWorkers : TickPlaced(w)
    \/ \E w \in TickWorkers : TickPollEmpty(w)
    \/ \E d \in DbWorkers : DbPollEmpty(d)
    \/ HandlerPollEmpty

SpecRace == InitRace /\ [][NextRace]_vars

----------------------------------------------------------------------------
(* Properties *)

Admitted == DOMAIN order_cache[MainProc]
LimitOf(o) == order_cache[MainProc][o].execution_limit
IndexedIds == UNION {SeqToSet(orders_by_instrument[t]) : t \in DOMAIN orders_by_instrument}

(* no queue holds work and no worker is inside an iteration *)
Quiescent ==
    /\ tick_queue = <<>> /\ order_queue = <<>> /\ db_queue = <<>>
    /\ \A w \in TickWorkers : tpc[w] \in {"idle", "dead"}
    /\ \A d \in DbWorkers : dpc[d] \in {"idle", "dead"}

(* C1: for every admitted order, the number of kite.place_order calls that *)
(* were made and returned never exceeds the order's execution_limit        *)
C1_ExecutionsWithinLimit ==
    \A o \in Admitted : placed[o] <= LimitOf(o)

(* C2: in every process' order cache and in the shared orders table the    *)
(* executions_done of an order never exceeds its execution_limit, and the  *)
(* value held by the shared orders table never decreases from one state to *)
(* the next                                                                *)
C2_CountBounded ==
    /\ \A p \in DOMAIN order_cache : \A o \in DOMAIN order_cache[p] :
           order_cache[p][o].executions_done <= order_cache[p][o].execution_limit
    /\ \A o \in DOMAIN orders : orders[o].executions_done <= orders[o].execution_limit

C2_CountMonotone ==
    \A o \in (DOMAIN orders) \cap (DOMAIN orders') :
        orders'[o].executions_done >= orders[o].executions_done

C2_ExecutionsDoneMonotoneBounded == [](C2_CountBounded) /\ [][C2_CountMonotone]_vars

(* C3: once an order has been executed execution_limit times, its durable  *)
(* status is COMPLETED and it is absent from every tick worker's order     *)
(* cache and from the instrument -> orders index                           *)
C3_CompletedOrderEvicted ==
    \A o \in Admitted :
        placed[o] >= LimitOf(o) =>
            /\ RowStatus(o) \in {"COMPLETED", "absent"}
            /\ \A w \in TickWorkers : o \notin DOMAIN order_cache[w]
            /\ o \notin IndexedIds

(* C4: a tick that a worker takes from the queue after cancel_order has    *)
(* set the order's row to CANCELLED never leads to a kite.place_order call *)
(* for that order                                                          *)
C4_NoExecutionAfterCancel ==
    [][\A w \in TickWorkers :
          (tpc[w] = "loop" /\ tpc'[w] = "placing") => Head(ttodo[w]) \notin tcancelled[w]]_vars

(* C5: a cancel_order step on an order whose row is PENDING leaves the row *)
(* CANCELLED and the order absent from the order cache of every process    *)
C5_CancelPendingEvicts ==
    [][\A o \in OrderIds :
          (CancelOrder(o) /\ RowStatus(o) = "PENDING") =>
              /\ pending_orders'[o].status = "CANCELLED"
              /\ \A p \in DOMAIN order_cache' : o \notin DOMAIN order_cache'[p]]_vars

(* C6: a cancel_order step on an order whose row is not PENDING, or that   *)
(* has no row, returns normally and leaves the durable row, the order      *)
(* caches, the orders table and the index unchanged                        *)
C6_CancelNonPendingNoop ==
    [][\A o \in OrderIds :
          (CancelOrder(o) /\ RowStatus(o) # "PENDING") =>
              /\ lastCall'.result = "noop"
              /\ UNCHANGED <<pending_orders, order_executions, order_cache, orders,
                             orders_by_instrument>>]_vars

C6_Witness ==
    /\ lastCall.op = "cancel" /\ lastCall.result = "noop"
    /\ lastCall.seen \in {"PARTIALLY_EXECUTED", "COMPLETED", "CANCELLED"}

(* C7: a modify_order step on an order whose row is PARTIALLY_EXECUTED     *)
(* changes neither the durable row nor any in-memory order                 *)
C7_ModifyPartiallyExecutedRejected ==
    [][\A o \in OrderIds : \A nd \in ModifyInputs :
          (ModifyOrder(o, nd) /\ RowStatus(o) = "PARTIALLY_EXECUTED") =>
              /\ lastCall'.result = "noop"
              /\ UNCHANGED <<pending_orders, order_cache, orders>>]_vars

C7_Witness ==
    /\ lastCall.op = "modify" /\ lastCall.result = "noop"
    /\ lastCall.seen = "PARTIALLY_EXECUTED"

(* C8: after a modify_order step that changed the durable row, the         *)
(* in-memory order (orders table and every tick worker's order cache)      *)
(* carries the new details                                                 *)
Carries(order, nd) ==
    /\ order.order_type = nd.order_type /\ order.operation = nd.operation
    /\ order.limit_price = nd.limit_price /\ order.trigger_price = nd.trigger_price

C8_ModifyReachesMemory ==
    [][\A o \in OrderIds : \A nd \in ModifyInputs :
          (ModifyOrder(o, nd) /\ lastCall'.result = "ok") =>
              /\ o \in DOMAIN orders' /\ Carries(orders'[o], nd)
              /\ \A w \in TickWorkers :
                     o \in DOMAIN order_cache'[w] => Carries(order_cache'[w][o], nd)]_vars

(* C9: a MARKET BUY order with execution_limit 1 and executions_done 0     *)
(* that was followed by one tick for its token has, once all queues are    *)
(* drained and no worker is inside an iteration, exactly one returned      *)
(* kite.place_order call and the durable status COMPLETED                  *)
C9_RoundTrip ==
    \A o \in Admitted :
        LET od == order_cache[MainProc][o]
        IN  ( /\ od.order_type = "MARKET" /\ od.operation = "BUY"
              /\ od.execution_limit = 1
              /\ ticksAfterAdd[o] = 1
              /\ Quiescent )
            => (placed[o] = 1 /\ RowStatus(o) = "COMPLETED")

(* C10: when a tick worker evaluates a LIMIT order whose executions_done   *)
(* is below its execution_limit against a tick of price p, it calls        *)
(* kite.place_order iff (BUY and p <= limit_price) or (SELL and            *)
(* p >= limit_price)                                                       *)
LimitEligible(order, p) ==
    \/ (order.operation = "BUY" /\ p <= order.limit_price)
    \/ (order.operation = "SELL" /\ p >= order.limit_price)

C10_LimitTrigger ==
    [][\A w \in TickWorkers :
          ( /\ TickEval(w)
            /\ Head(ttodo[w]) \in DOMAIN order_cache[w]
            /\ order_cache[w][Head(ttodo[w])].order_type = "LIMIT"
            /\ order_cache[w][Head(ttodo[w])].executions_done
                   < order_cache[w][Head(ttodo[w])].execution_limit )
          => ( tpc'[w] = "placing"
               <=> LimitEligible(order_cache[w][Head(ttodo[w])], ttick[w].last_price) )]_vars

C10_Witness ==
    \E w \in TickWorkers :
        /\ tpc[w] = "placing"
        /\ LET order == order_cache[w][Head(ttodo[w])]
           IN  /\ order.order_type = "LIMIT" /\ order.operation = "BUY"
               /\ ttick[w].last_price < order.limit_price

(* C11: when a tick worker evaluates an SL or SL-M order whose             *)
(* executions_done is below its execution_limit against a tick of price p, *)
(* it calls kite.place_order iff (BUY and p >= trigger_price) or (SELL and *)
(* p <= trigger_price)                                                     *)
StopEligible(order, p) ==
    \/ (order.operation = "BUY" /\ p >= order.trigger_price)
    \/ (order.operation = "SELL" /\ p <= order.trigger_price)

C11_StopLossTrigger ==
    [][\A w \in TickWorkers :
          ( /\ TickEval(w)
            /\ Head(ttodo[w]) \in DOMAIN order_cache[w]
            /\ order_cache[w][Head(ttodo[w])].order_type \in {"SL", "SL-M"}
            /\ order_cache[w][Head(ttodo[w])].executions_done
                   < order_cache[w][Head(ttodo[w])].execution_limit )
          => ( tpc'[w] = "placing"
               <=> StopEligible(order_cache[w][Head(ttodo[w])], ttick[w].last_price) )]_vars

C11_Witness ==
    \E w \in TickWorkers :
        /\ tpc[w] = "placing"
        /\ LET order == order_cache[w][Head(ttodo[w])]
           IN  /\ order.order_type = "SL" /\ order.operation = "SELL"
               /\ ttick[w].last_price < order.trigger_price

(* C12: an add_order call whose instrument-token resolution fails raises   *)
(* to the caller and changes nothing: the order is in no order cache,      *)
(* db_queue and order_queue hold no new job, no subscription is added and  *)
(* no table, index or token cache entry is written                         *)
C12_FailedTokenNoPartialState ==
    [][\A o \in OrderIds : \A d \in OrderInputs \cup MarketInputs :
          AddOrderTokenFailed(o, d)
          => /\ lastCall'.result = "raised"
             /\ \A p \in DOMAIN order_cache' : o \notin DOMAIN order_cache'[p]
             /\ UNCHANGED <<order_cache, instrument_cache, db_queue, order_queue,
                            subscribed_instruments, ticker_subs, tick_data,
                            orders, orders_by_instrument, pending_orders>>]_vars

C12_Witness ==
    /\ lastCall.op = "add" /\ lastCall.result = "raised"
    /\ lastFault = [kind |-> "ltp", id |-> lastCall.id]
    /\ connection_ready
    /\ lastCall.id \notin DOMAIN order_cache[MainProc]
    /\ order_queue = <<>> /\ db_queue = <<>> /\ subscribed_instruments = <<>>

(* C13: once the durable row of an order has status COMPLETED, CANCELLED   *)
(* or REJECTED, no step changes that status (the order dicts held in       *)
(* memory carry no status field)                                           *)
TerminalStatuses == {"COMPLETED", "CANCELLED", "REJECTED"}

C13_TerminalStatusImmutable ==
    [][\A o \in OrderIds :
          RowStatus(o) \in TerminalStatuses => RowStatus(o)' = RowStatus(o)]_vars

(* C14: whenever no queue holds work and no worker is inside an iteration, *)
(* the ids listed in orders_by_instrument are the ids held by the order    *)
(* cache add_order writes to, and none of them belongs to an order whose   *)
(* row is COMPLETED, CANCELLED or REJECTED                                 *)
C14_IndexMatchesOrderCache ==
    Quiescent =>
        /\ IndexedIds = DOMAIN order_cache[MainProc]
        /\ \A o \in IndexedIds : RowStatus(o) \notin TerminalStatuses

(* C15: a kite.place_order call that raises leaves the order as it was:    *)
(* executions_done in every order cache and in the orders table, the       *)
(* durable row and the execution rows are unchanged and the order stays in *)
(* the worker's order cache and in the index; and the next tick the worker *)
(* takes for the order's instrument puts the order in its loop again       *)
C15_FailedStep ==
    \A w \in TickWorkers :
        TickPlaceFailed(w)
        => /\ UNCHANGED <<order_cache, orders, pending_orders, order_executions,
                          orders_by_instrument, placed>>
           /\ Head(ttodo[w]) \in DOMAIN order_cache'[w]
           /\ Head(ttodo[w]) \in IndexedIds'

C15_NextTickStep ==
    \A w \in TickWorkers :
        ( /\ TickGet(w)
          /\ lastFault.kind = "place_order"
          /\ lastFault.id \in DOMAIN order_cache[w]
          /\ order_cache[w][lastFault.id].instrument_token
                 = Head(tick_queue).instrument_token )
        => \E i \in 1 .. Len(ttodo'[w]) : ttodo'[w][i] = lastFault.id

C16_DbFailureKeepsMemoryOutcome ==
    [][\A w \in TickWorkers : \A stage \in DbStages :
          TickPlacedDbFailed(w, stage)
          => LET o == Head(ttodo[w])
                 order == [order_cache[w][o] EXCEPT !.executions_done = @ + 1]
             IN  /\ order_cache'[w][o] = order
                 /\ orders' = IF order.executions_done >= order.execution_limit
                               THEN CompletedOrders(orders, o)
                               ELSE Put(orders, o, order)]_vars

(* C17: a DB worker whose job raised drops the job (it is not put back on  *)
(* db_queue and changes no row) and is alive afterwards, ready to take the *)
(* next job                                                                *)
C17_FailedJobDroppedWorkerAlive ==
    [][\A d \in DbWorkers :
          DbApplyFailed(d)
          => /\ db_queue' = db_queue
             /\ pending_orders' = pending_orders
             /\ dpc'[d] = "idle"]_vars

(* C18: worker processes come into being only in a step that leaves       *)
(* connection_ready set; a start() whose wait timed out raises to the      *)
(* caller and leaves self.processes empty and every worker unstarted       *)
Launched ==
    \/ hpc # "off" \/ jpc # "off"
    \/ \E d \in DbWorkers : dpc[d] # "off"
    \/ \E w \in TickWorkers : tpc[w] # "off"

C18_LaunchStep == (~Launched /\ Launched') => connection_ready'

C18_FailedStep ==
    StartFailed => /\ ~Launched' /\ Processes' = <<>>
                   /\ lastCall'.op = "start" /\ lastCall'.result = "raised"

C18_LaunchOnlyWhenReady == [][C18_LaunchStep /\ C18_FailedStep]_vars

C18_Witness ==
    /\ lastCall.op = "start" /\ lastCall.result = "raised"
    /\ ~connection_ready /\ ~Launched
    /\ DOMAIN order_cache[MainProc] # {}

(* C19: a stop() in progress can always take its next step and has at most *)
(* one turn per process left, and at the step in which stop() returns      *)
(* is_running is clear and no process of self.processes is alive           *)
C19_Progress ==
    \A s \in Stoppers :
        spc[s] = "joining"
        => /\ sidx[s] <= Len(Processes) + 1
           /\ ENABLED (StopJoin(s) \/ StopReturn(s))

C19_ReturnStep ==
    \A s \in Stoppers :
        StopReturn(s)
        => /\ ~is_running'
           /\ \A i \in 1 .. Len(Processes') : ~IsAlive(Processes[i])'

C19_JoinStep ==
    \A s \in Stoppers : StopJoin(s) => sidx'[s] = sidx[s] + 1

C19_StopEndsEveryWorker == [](C19_Progress) /\ [][C19_ReturnStep /\ C19_JoinStep]_vars

(* stop() has returned after terminating the janitor and a tick worker *)
(* that was inside its for loop, while a DB worker left on its own     *)
C19_Witness ==
    /\ spc["caller"] = "returned"
    /\ jpc = "killed"
    /\ \E w \in TickWorkers : tpc[w] = "killed" /\ ttodo[w] # <<>>
    /\ \E d \in DbWorkers : dpc[d] = "exited"

(* C20: a step of stop() taken when the engine is already stopped changes  *)
(* neither is_running, connection_ready nor any process, and a stop() that *)
(* follows or overlaps another one returns with the engine stopped         *)
Stopped ==
    /\ ~is_running /\ ~connection_ready
    /\ \A i \in 1 .. Len(Processes) : ~IsAlive(Processes[i])

C20_RepeatedStep ==
    \A s \in Stoppers :
        (Stopped /\ (StopBegin(s) \/ StopJoin(s) \/ StopReturn(s)))
        => UNCHANGED <<is_running, connection_ready, hpc, jpc, dpc, tpc>>

C20_SecondReturn ==
    \A s \in Stoppers :
        (StopReturn(s) /\ \E t \in Stoppers \ {s} : spc[t] # "idle") => Stopped'

C20_StopIdempotent == [][C20_RepeatedStep /\ C20_SecondReturn]_vars

C20_Witness ==
    /\ started /\ Stopped
    /\ spc["caller"] = "returned" /\ spc["feed"] = "returned"
    /\ hpc = "killed"

(* C21: on_noreconnect clears is_running in the step in which it is     *)
(* called, and the stop() it starts leads to a state in which stop() has *)
(* returned, is_running is clear and no process of self.processes is     *)
(* alive                                                                 *)
C21_NoReconnectStep == OnNoReconnect => ~is_running' /\ spc'["feed"] = "joining"

C21_ShutDown ==
    /\ spc["feed"] = "returned"
    /\ ~is_running
    /\ \A i \in 1 .. Len(Processes) : ~IsAlive(Processes[i])

C21_NoReconnectStopsEngine ==
    /\ [][C21_NoReconnectStep]_vars
    /\ (spc["feed"] = "joining") ~> C21_ShutDown
    /\ [](C21_ShutDown => []C21_ShutDown)

(* the feed's stop() has returned after terminating a tick worker that *)
(* was inside its for loop                                             *)
C21_Witness ==
    /\ C21_ShutDown
    /\ \E w \in TickWorkers : tpc[w] = "killed" /\ ttodo[w] # <<>>

(* C22: when on_order_update reports a terminal status for an admitted   *)
(* order, a status job for it is put on db_queue and, when the callback *)
(* returns, the order is in no process's order_cache and not in the     *)
(* index                                                                *)
C22_UpdateStep ==
    \A o \in Admitted : \A st \in BrokerStatuses \cap BrokerTerminal :
        OnOrderUpdate(o, st)
        => /\ db_queue' = Append(db_queue, UpdateJob(o, st))
           /\ \A p \in DOMAIN order_cache : o \notin DOMAIN order_cache'[p]
           /\ o \notin IndexedIds'

C22_TerminalUpdateEvicts == [][C22_UpdateStep]_vars

(* C23: after add_order has returned successfully the order's token is *)
(* subscribed on the feed or, when the feed is not connected, tracked  *)
(* in subscribed_instruments so that the next on_connect subscribes it *)
C23_AddStep ==
    \A o \in OrderIds : \A d \in FeedInputs(o) :
        AddOrder(o, d)
        => LET token == ResolvedToken(d.trading_symbol)
           IN  \/ token \in ticker_subs'
               \/ /\ ~connection_ready
                  /\ token \in SeqToSet(subscribed_instruments')

C23_AddedTokenSubscribedOrTracked == [][C23_AddStep]_vars

(* C24: In every process, a tick-cache entry written more than TickTtl   *)
(* seconds (5 minutes) ago is reported absent by a read, whether or not *)
(* the janitor has swept.                                               *)
C24_ExpiredTickReadsAbsent ==
    \A p \in DOMAIN tick_cache : \A t \in DOMAIN tick_cache[p] :
        now - tick_cache[p][t].timestamp > TickTtl
            => GetCachedTick(p, t) = NoPrice

C24_Witness ==
    \E p \in DOMAIN tick_cache : \E t \in DOMAIN tick_cache[p] :
        /\ now - tick_cache[p][t].timestamp > TickTtl
        /\ GetCachedTick(p, t) = NoPrice
        /\ jpc = "sleep"

(* C25: every connect event, the first one made by start() and every   *)
(* reconnect, sets connection_ready and subscribes every tracked token; *)
(* on_close clears connection_ready; neither changes the tracked tokens *)
C25_ConnectStep ==
    (Start \/ OnConnect)
    => /\ connection_ready'
       /\ SeqToSet(subscribed_instruments) \subseteq ticker_subs'
       /\ subscribed_instruments' = subscribed_instruments

C25_CloseStep ==
    OnClose
    => /\ ~connection_ready'
       /\ subscribed_instruments' = subscribed_instruments

C25_ConnectResubscribes == [][C25_ConnectStep /\ C25_CloseStep]_vars

(* the connection was lost twice and made again twice, and the tracked *)
(* token is subscribed on the present connection                       *)
C25_Witness ==
    /\ reconnects = 2
    /\ connection_ready
    /\ subscribed_instruments # <<>>
    /\ SeqToSet(subscribed_instruments) \subseteq ticker_subs

(* C26: on_ticks appends the ticks of its batch to tick_queue, one     *)
(* message per tick in the order of the batch, and changes none of the *)
(* tick cache, the last-price view, the order cache, the index and the *)
(* durable-write queue                                                 *)
C26_OnTicksStep ==
    \A b \in FeedBatches :
        OnTicks(b, MaxTicksFeed)
        => /\ tick_queue' = tick_queue \o b
           /\ Len(tick_queue') = Len(tick_queue) + Len(b)
           /\ UNCHANGED <<tick_cache, tick_data, order_cache,
                          orders_by_instrument, db_queue>>

C26_OnTicksPureHandOff == [][C26_OnTicksStep]_vars

(* a batch of two different ticks sits on tick_queue in batch order, *)
(* behind a tick the worker has already cached                       *)
C26_Witness ==
    /\ ticksSent = 3
    /\ Len(tick_queue) = 2
    /\ tick_queue[1].last_price = 2 /\ tick_queue[2].last_price = 1
    /\ \E w \in TickWorkers : tick_cache[w] # EmptyDict

(* C27: a tick worker, a DB worker or the order handler whose bounded *)
(* queue read finds its queue empty is alive afterwards, back at the  *)
(* head of its loop                                                   *)
C27_EmptyPollStep ==
    /\ \A w \in TickWorkers : TickPollEmpty(w) => tpc'[w] = "idle"
    /\ \A d \in DbWorkers : DbPollEmpty(d) => dpc'[d] = "idle"
    /\ HandlerPollEmpty => hpc' = "run"

C27_EmptyPollKeepsWorkerAlive == [][C27_EmptyPollStep]_vars

(* C28: with one tick worker, an execution that leaves executions_done  *)
(* below execution_limit keeps the order in the worker's order cache    *)
(* with the incremented counter; the execution that reaches the limit   *)
(* completes the order and evicts it from the order cache and the index; *)
(* the number of place_order calls is the counter and within the limit   *)
C28_ExecutionStep ==
    \A w \in TickWorkers :
        TickPlaced(w)
        => LET o == Head(ttodo[w])
               n == order_cache[w][o].executions_done + 1
           IN  /\ placed'[o] = n /\ n <= order_cache[w][o].execution_limit
               /\ IF n < order_cache[w][o].execution_limit
                  THEN /\ o \in DOMAIN order_cache'[w]
                       /\ order_cache'[w][o].executions_done = n
                  ELSE /\ o \notin DOMAIN orders'
                       /\ o \notin DOMAIN order_cache'[w]
                       /\ o \notin IndexedIds'

C28_ExecutionsUpToLimitThenEvicted == [][C28_ExecutionStep]_vars

(* C29: a tick evaluated against an order whose executions_done has    *)
(* reached execution_limit makes no place_order call; the order's row  *)
(* gets status COMPLETED and the order is removed from self.orders,    *)
(* the order cache and the index                                       *)
C29_Exhausted(w) ==
    /\ tpc[w] = "loop"
    /\ Head(ttodo[w]) \in DOMAIN order_cache[w]
    /\ order_cache[w][Head(ttodo[w])].executions_done
           >= order_cache[w][Head(ttodo[w])].execution_limit

C29_NoCallStep ==
    \A w \in TickWorkers :
        (C29_Exhausted(w) /\ TickEval(w))
        => LET o == Head(ttodo[w])
           IN  /\ tpc'[w] # "placing" /\ placed' = placed
               /\ o \in DOMAIN pending_orders'
                      => pending_orders'[o].status = "COMPLETED"
               /\ o \notin DOMAIN orders'

C29_RemovedStep ==
    \A w \in TickWorkers :
        (C29_Exhausted(w) /\ TickEval(w))
        => /\ Head(ttodo[w]) \notin DOMAIN order_cache'[w]
           /\ Head(ttodo[w]) \notin IndexedIds'

C29_ExhaustedOrderCompletedNotExecuted == [][C29_NoCallStep /\ C29_RemovedStep]_vars

(* C30: the row that add_order's insert job creates exists when an     *)
(* execution of the order is written and when a queued status job for *)
(* the order is applied, so that the writes for one order take effect *)
(* in the order in which they were issued                             *)
C30_ExecutionWriteStep ==
    \A w \in TickWorkers :
        TickPlaced(w) => Head(ttodo[w]) \in DOMAIN pending_orders

C30_QueuedJobStep ==
    \A d \in DbWorkers :
        (DbApply(d) /\ djob[d].op = "update_status")
        => /\ djob[d].order_id \in DOMAIN pending_orders
           /\ \A e \in DbWorkers \ {d} :
                  ~(dpc[e] = "job" /\ djob[e].order_id = djob[d].order_id)

C30_WritesInIssueOrder == [][C30_ExecutionWriteStep /\ C30_QueuedJobStep]_vars

(* C31: when the queues are drained and no worker is inside an iteration, *)
(* every admitted order has a durable row whose executions_done is the    *)
(* number of executions made for the order and whose status is the        *)
(* in-memory outcome (or CANCELLED)                                       *)
C31_MemoryStatus(o) ==
    IF placed[o] = 0 THEN "PENDING"
    ELSE IF placed[o] < LimitOf(o) THEN "PARTIALLY_EXECUTED"
    ELSE "COMPLETED"

C31_DurableMirrorsMemory ==
    Quiescent
    => \A o \in Admitted :
           /\ o \in DOMAIN pending_orders
           /\ pending_orders[o].executions_done = placed[o]
           /\ pending_orders[o].status \in {C31_MemoryStatus(o), "CANCELLED"}

(* C32: while the engine runs, an admitted order that is not yet in the *)
(* index has a live handler process that will take it from order_queue  *)
(* and index it                                                         *)
C32_AdmittedOrderGetsIndexed ==
    \A o \in Admitted :
        (started /\ is_running /\ o \notin IndexedIds)
        => /\ hpc = "run"
           /\ \E i \in 1 .. Len(order_queue) : order_queue[i].order_id = o

(* C33: when add_order has resolved a trading symbol, instrument_cache   *)
(* holds a mapping for the symbol that was looked up at most TokenTtl    *)
(* seconds (24 hours) ago: an older mapping is treated as absent, looked *)
(* up afresh and stored again                                            *)
C33_ResolveStep ==
    \A o \in OrderIds : \A d \in TokenInputs(o) :
        AddOrder(o, d)
        => /\ d.trading_symbol \in DOMAIN instrument_cache'
           /\ now - instrument_cache'[d.trading_symbol].timestamp < TokenTtl

C33_ExpiredTokenLookedUpAgain == [][C33_ResolveStep]_vars

(* C34: every step that changes the durable store (pending_orders or  *)
(* order_executions) is a DB worker applying a job it took from db_queue *)
C34_WriteStep ==
    (pending_orders' # pending_orders \/ order_executions' # order_executions)
    => \E d \in DbWorkers : DbApply(d)

C34_OnlyDbWorkersWrite == [][C34_WriteStep]_vars

(* C35: when the queues are drained and no worker is inside an iteration, *)
(* an order id is in the order cache add_order writes if and only if it   *)
(* is in self.orders                                                      *)
C35_OrderStoresAgree ==
    Quiescent
    => \A o \in OrderIds :
           o \in DOMAIN order_cache[MainProc] <=> o \in DOMAIN orders

(* C36: in every tick worker, the executions_done of a cached order is the *)
(* number of place_order calls that have returned for that order           *)
C36_CountSeenByEveryWorker ==
    \A w \in TickWorkers : \A o \in DOMAIN order_cache[w] :
        order_cache[w][o].executions_done = placed[o]

(* C37: an add_order that raises, at the token lookup or at the      *)
(* subscription, leaves the order out of order_cache and puts nothing *)
(* on db_queue or order_queue                                         *)
C37_RaisedStep ==
    \A o \in OrderIds : \A d \in IntakeInputs(o) :
        (AddOrderTokenFailed(o, d) \/ AddOrderSubscribeFailed(o, d))
        => /\ o \notin DOMAIN order_cache'[MainProc]
           /\ db_queue' = db_queue
           /\ order_queue' = order_queue

C37_AddOrderAllOrNothing == [][C37_RaisedStep]_vars

(* C38: a modify_order changes the durable row if and only if it     *)
(* changes the order in memory (self.orders or the order cache), and  *)
(* one that raises changes neither                                    *)
C38_ModifyStep ==
    \A o \in OrderIds : \A nd \in ModifyInputs :
        ModifyOrder(o, nd)
        => /\ (pending_orders' # pending_orders)
                  <=> (orders' # orders \/ order_cache' # order_cache)
           /\ lastCall'.result = "raised" => pending_orders' = pending_orders

C38_ModifyAtomicAcrossStores == [][C38_ModifyStep]_vars

(* C39: after start() and while is_running is set, a tick waiting on   *)
(* tick_queue has a live tick worker that will dequeue and process it, *)
(* whatever cpu_count() is                                             *)
C39_WaitingTickHasWorker ==
    (started /\ is_running /\ tick_queue # <<>>)
    => \E w \in TickWorkers : tpc[w] \in {"idle", "loop", "placing"}

(* C40: once tick_queue is drained and no tick worker is inside an       *)
(* iteration, tick_data holds for the instrument the price of the tick   *)
(* enqueued last (under SpecPrices the i-th tick carries the price i, so *)
(* that price is ticksSent)                                              *)
C40_LastPriceIsLatest ==
    (/\ ticksSent > 0
     /\ tick_queue = <<>>
     /\ \A w \in TickWorkers : tpc[w] = "idle")
    => \A t \in Tokens : t \in DOMAIN tick_data /\ tick_data[t] = ticksSent

====
